---- MODULE Spec2Model ----
(***************************************************************************)
(* Verification model of glimix_core.lmm: the LMM fit engine (_lmm.py) and *)
(* the FastScanner (_scan.py).                                             *)
(*                                                                         *)
(* Numbers.  Python floats are modelled by exact rationals <<p, q>> in     *)
(* lowest terms with q > 0.  The optimizer's variable `logistic` is stored *)
(* through its exponential, odds = exp(logistic), which is an exact        *)
(* re-encoding: log(d / (1 - d)) is stored as d / (1 - d), and             *)
(* 1 / (1 + exp(-v)) is read back as odds / (1 + odds).  A log-likelihood  *)
(* is kept as the pair of rationals it is assembled from.                  *)
(***************************************************************************)
EXTENDS Integers, Sequences, FiniteSets, TLC

\* numpy.asarray: the array holding the values of a sequence
asarray(s) == s \o <<>>

(***************************************************************************)
(* Exact rational arithmetic.                                              *)
(***************************************************************************)
Abs(x) == IF x < 0 THEN -x ELSE x

RECURSIVE GCD(_, _)
GCD(a, b) == IF b = 0 THEN a ELSE GCD(b, a % b)

\* the quotient p / q in lowest terms; x / 0 is kept as the float keeps it:
\* 0 / 0 is nan, x / 0 is +inf or -inf
Rat(p, q) ==
    IF p = 0 /\ q = 0 THEN <<0, 0>>
    ELSE
      LET g == GCD(Abs(p), Abs(q))
          s == IF q < 0 THEN -1 ELSE 1
      IN  <<(s * p) \div g, (s * q) \div g>>

RI(i) == <<i, 1>>
RZero == <<0, 1>>
ROne == <<1, 1>>
RAdd(a, b) == Rat(a[1] * b[2] + b[1] * a[2], a[2] * b[2])
RSub(a, b) == Rat(a[1] * b[2] - b[1] * a[2], a[2] * b[2])
RMul(a, b) == Rat(a[1] * b[1], a[2] * b[2])
RDiv(a, b) == Rat(a[1] * b[2], a[2] * b[1])
RNeg(a) == <<-a[1], a[2]>>
RLt(a, b) == a[1] * b[2] < b[1] * a[2]
RLe(a, b) == a[1] * b[2] <= b[1] * a[2]
RMax(a, b) == IF RLt(a, b) THEN b ELSE a
RMin(a, b) == IF RLt(b, a) THEN b ELSE a
RIsZero(a) == a[1] = 0

RECURSIVE RSum(_)
RSum(s) == IF s = <<>> THEN RZero ELSE RAdd(Head(s), RSum(Tail(s)))

\* dot product of two equally long sequences of rationals
RDot(u, v) == RSum(asarray([i \in 1..Len(u) |-> RMul(u[i], v[i])]))

(***************************************************************************)
(* Program constants (numpy_sugar.epsilon, optimix bounds), scaled down so *)
(* that the arithmetic stays small: tiny = 1/TinyInv, small = 1/SmallInv,  *)
(* exp(logmax) = OddsMax.  As in the library, exp(logmax) is far beyond    *)
(* (1 - tiny) / tiny, so the clip of the delta getter is reachable.        *)
(***************************************************************************)
TinyInv == 8
SmallInv == 100
OddsMax == 64

EpsTiny == Rat(1, TinyInv)
EpsSmall == Rat(1, SmallInv)

(***************************************************************************)
(* Values an input array may hold: finite numbers (rationals) and the      *)
(* non-finite floats, written as the quotients 0/0 and 1/0.                *)
(***************************************************************************)
NaN == <<0, 0>>
Inf == <<1, 0>>
IsFinite(v) == v[2] # 0
\* numpy_sugar.is_all_finite / numpy.all(isfinite(.)) on a flat sequence
IsAllFinite(s) == \A i \in 1..Len(s) : IsFinite(s[i])

(***************************************************************************)
(* Arrays.  A vector is a sequence of numbers; a matrix is a record        *)
(* [rows, cols] with cols the sequence of its columns, so that an n x 0    *)
(* matrix still has a row count (numpy shape (n, 0)).                      *)
(***************************************************************************)
Mat(n, cs) == [rows |-> n, cols |-> cs]
NCols(A) == Len(A.cols)
MatSize(A) == A.rows * NCols(A)
MatFlat(A) == asarray([i \in 1..MatSize(A) |->
                 A.cols[((i - 1) \div A.rows) + 1][((i - 1) % A.rows) + 1]])
IV(s) == asarray([i \in 1..Len(s) |-> RI(s[i])])
\* dot(v.T, Q): the projections of v on the columns of Q
ProjT(v, Q) == asarray([j \in 1..NCols(Q) |-> RDot(v, Q.cols[j])])

(***************************************************************************)
(* Economic eigendecompositions ((Q0, Q1), S0).  NoQS stands for the       *)
(* argument QS=None.                                                       *)
(***************************************************************************)
MkQS(Q0, Q1, S0) == [isNone |-> FALSE, Q0 |-> Q0, Q1 |-> Q1, S0 |-> S0]
NoQS == [isNone |-> TRUE, Q0 |-> Mat(0, <<>>), Q1 |-> Mat(0, <<>>), S0 |-> <<>>]

\* numpy eye(n) as a matrix
Eye(n) == Mat(n, asarray([j \in 1..n |-> asarray([i \in 1..n |-> IF i = j THEN ROne ELSE RZero])]))
\* glimix_core._util.economic_qs_zeros(n): ((zeros((n, 0)), eye(n)), zeros(0))
economic_qs_zeros(n) == MkQS(Mat(n, <<>>), Eye(n), <<>>)

\* a rank-1 decomposition of a 2 x 2 matrix K = Q0 S0 Q0^T, Q = [Q0 Q1] a
\* signed permutation
QS2 == MkQS(Mat(2, <<IV(<<0, 1>>)>>), Mat(2, <<IV(<<-1, 0>>)>>), IV(<<2>>))
\* a decomposition over three samples
QS3 == MkQS(Mat(3, <<IV(<<0, 1, 0>>)>>),
            Mat(3, <<IV(<<-1, 0, 0>>), IV(<<0, 0, 1>>)>>), IV(<<2>>))

(***************************************************************************)
(* LMM: the object's fields, LMM.__init__ and the accessors.               *)
(***************************************************************************)
\* SVD(X) of a one-column X: US is the column itself, Vt = [[1]], rank 1
XsvdUS(X) == X.cols[1]
XsvdRank(X) == IF \A i \in 1..X.rows : RIsZero(X.cols[1][i]) THEN 0 ELSE 1

Clip(v, lo, hi) == RMin(RMax(v, lo), hi)

\* the delta setter's value of the logistic variable, as odds
LogitOdds(delta) ==
    LET d == Clip(delta, EpsTiny, RSub(ROne, EpsTiny))
    IN  RDiv(d, RSub(ROne, d))

\* a getter that returns the logistic function of the variable as it is
DeltaOfUnclipped(odds) ==
    IF RLt(ROne, odds)
    THEN RDiv(ROne, RAdd(ROne, RDiv(ROne, odds)))
    ELSE RDiv(odds, RAdd(odds, ROne))

\* LMM.delta (getter), from the odds exp(logistic.value)
DeltaOf(odds) ==
    LET v == IF RLt(ROne, odds)
             THEN RDiv(ROne, RAdd(ROne, RDiv(ROne, odds)))
             ELSE RDiv(odds, RAdd(odds, ROne))
    IN  Clip(v, EpsTiny, RSub(ROne, EpsTiny))

Delta(m) == DeltaOf(m.odds)

NoOptimal == [beta |-> FALSE, scale |-> FALSE]

\* LMM.delta (setter)
SetDelta(m, delta) ==
    [m EXCEPT !.odds = LogitOdds(delta), !.optimal = NoOptimal]

\* a listener that forgets the flags
DeltaUpdateKeepsFlags(m) == m

\* LMM._delta_update, the listener of the logistic variable
DeltaUpdate(m) == [m EXCEPT !.optimal = NoOptimal]

\* optimix Scalar.value = x: stores x and notifies the listeners
SetLogistic(m, x) == DeltaUpdate([m EXCEPT !.odds = x])

\* a setter of beta that leaves the flag of the scale as it is
SetBetaKeepsScaleFlag(m, beta) == [m EXCEPT !.tbeta = beta, !.optimal.beta = FALSE]
\* LMM.beta (setter): tbeta = Vt @ beta with Vt = [[1]]
SetBeta(m, beta) == [m EXCEPT !.tbeta = beta, !.optimal = NoOptimal]

\* LMM.scale (setter)
SetScale(m, s) == [m EXCEPT !.scale = s, !.optimal.scale = FALSE]

\* an assignment that replaces X and clears the flags
SetXReplacing(m, X) == [m EXCEPT !.X = X, !.optimal = NoOptimal]

\* lmm.X = X: the property X of LMM has a getter only, so the assignment
\* raises AttributeError
SetX(m, X) == [m EXCEPT !.exc = "AttributeError"]

\* LMM.fix / LMM.unfix
Fix(m, param) ==
    IF param = "delta" THEN [m EXCEPT !.dfixed = TRUE]
    ELSE [m EXCEPT !.fix = (param :> TRUE) @@ m.fix]
Unfix(m, param) ==
    IF param = "delta" THEN [m EXCEPT !.dfixed = FALSE]
    ELSE [m EXCEPT !.fix = (param :> FALSE) @@ m.fix]

\* the result of a constructor call: no object and the exception, or the object
Raised(e) == [ok |-> FALSE, exc |-> e]
Built(m) == [ok |-> TRUE, exc |-> "none", obj |-> m]

\* a constructor without the two sample-size checks
LMMInitNoSizeChecks(y, X, QS, restricted) ==
    IF ~IsAllFinite(y) THEN Raised("ValueError")
    ELSE IF Len(y) = 0 THEN Raised("ValueError")
    ELSE IF ~IsAllFinite(MatFlat(X)) THEN Raised("ValueError")
    ELSE Built([exc |-> "none"])

\* a constructor that stores delta = 0.5 and leaves it free when QS is None
LMMInitNoneNotFixed(y, X, QS, restricted) ==
    IF ~IsAllFinite(y) \/ Len(y) = 0 \/ ~IsAllFinite(MatFlat(X))
    THEN Raised("ValueError")
    ELSE
      LET qs == IF QS.isNone THEN economic_qs_zeros(Len(y)) ELSE QS
      IN  IF qs.Q0.rows # Len(y) \/ Len(y) # X.rows THEN Raised("ValueError")
          ELSE Built([y |-> y, QS |-> qs, X |-> X,
                      odds |-> LogitOdds(Rat(1, 2)), dfixed |-> FALSE,
                      optimal |-> NoOptimal,
                      tbeta |-> RZero, scale |-> ROne,
                      fix |-> [p \in {"beta", "scale"} |-> FALSE],
                      restricted |-> restricted, exc |-> "none"])

\* LMM.__init__(y, X, QS, restricted)
LMMInit(y, X, QS, restricted) ==
    IF ~IsAllFinite(y) THEN Raised("ValueError")
    ELSE IF Len(y) = 0 THEN Raised("ValueError")
    ELSE IF ~IsAllFinite(MatFlat(X)) THEN Raised("ValueError")
    ELSE
      LET qs == IF QS.isNone THEN economic_qs_zeros(Len(y)) ELSE QS
          m0 == [odds |-> ROne, dfixed |-> FALSE, optimal |-> NoOptimal]
          m1 == IF QS.isNone
                THEN [SetDelta(m0, ROne) EXCEPT !.dfixed = TRUE]
                ELSE SetDelta(m0, Rat(1, 2))
      IN  IF qs.Q0.rows # Len(y) THEN Raised("ValueError")
          ELSE IF Len(y) # X.rows THEN Raised("ValueError")
          ELSE Built([y |-> y, QS |-> qs, X |-> X,
                      odds |-> m1.odds, dfixed |-> m1.dfixed,
                      optimal |-> m1.optimal,
                      tbeta |-> RZero, scale |-> ROne,
                      fix |-> [p \in {"beta", "scale"} |-> FALSE],
                      restricted |-> restricted, exc |-> "none"])

(***************************************************************************)
(* LMM: the quadratic forms of the likelihood and the closed-form updates. *)
(* An operation on an object whose field exc is set is skipped: the        *)
(* exception is propagating to the caller.                                 *)
(***************************************************************************)
nsamples(m) == Len(m.y)
ScaleV(a, v) == asarray([i \in 1..Len(v) |-> RMul(a, v[i])])
DivV(u, d) == asarray([i \in 1..Len(u) |-> RDiv(u[i], d[i])])

\* LMM._D0
D0(m) ==
    LET d == Delta(m)
    IN  asarray([i \in 1..Len(m.QS.S0) |-> RAdd(RMul(RSub(ROne, d), m.QS.S0[i]), d)])

yTQ0(m) == ProjT(m.y, m.QS.Q0)
tXTQ0(m) == ProjT(XsvdUS(m.X), m.QS.Q0)

\* LMM._yTMy
yTMy(m) ==
    RAdd(RSum(DivV(asarray([i \in 1..Len(yTQ0(m)) |-> RMul(yTQ0(m)[i], yTQ0(m)[i])]), D0(m))),
         RDiv(RSub(RDot(m.y, m.y), RDot(yTQ0(m), yTQ0(m))), Delta(m)))

\* LMM._yTMtX
yTMtX(m) ==
    RAdd(RDot(DivV(yTQ0(m), D0(m)), tXTQ0(m)),
         RDiv(RSub(RDot(m.y, XsvdUS(m.X)), RDot(yTQ0(m), tXTQ0(m))), Delta(m)))

\* LMM._tXTMtX
tXTMtX(m) ==
    RAdd(RDot(DivV(tXTQ0(m), D0(m)), tXTQ0(m)),
         RDiv(RSub(RDot(XsvdUS(m.X), XsvdUS(m.X)), RDot(tXTQ0(m), tXTQ0(m))),
              Delta(m)))

\* LMM._df
df(m) == IF ~m.restricted THEN nsamples(m) ELSE nsamples(m) - XsvdRank(m.X)

\* numpy_sugar.linalg.rsolve on a 1 x 1 system: the least-squares solution,
\* zero when the matrix has no singular value above epsilon
rsolve1(A, b) == IF RIsZero(A) THEN RZero ELSE RDiv(b, A)

\* the closed-form beta at the current delta
OptimalBeta(m) == rsolve1(tXTMtX(m), yTMtX(m))

\* LMM._update_beta
UpdateBeta(m) ==
    IF m.exc # "none" THEN m
    ELSE IF m.fix["beta"] THEN [m EXCEPT !.exc = "AssertionError"]
    ELSE IF m.optimal.beta THEN m
    ELSE [m EXCEPT !.tbeta = OptimalBeta(m),
                   !.optimal = [beta |-> TRUE, scale |-> FALSE]]

\* LMM._optimal_scale_using_optimal_beta (without its assertion)
OptimalScaleUsingOptimalBeta(m) ==
    RMax(RDiv(RSub(yTMy(m), RMul(yTMtX(m), m.tbeta)), RI(df(m))), EpsSmall)

\* the else branch of LMM._update_scale: the scale for an arbitrary beta
OptimalScaleAnyBeta(m) ==
    LET p0 == RSub(yTMy(m), RMul(RI(2), RMul(yTMtX(m), m.tbeta)))
        p1 == RMul(m.tbeta, RMul(tXTMtX(m), m.tbeta))
    IN  RMax(RDiv(RAdd(p0, p1), RI(df(m))), EpsSmall)

\* an update that, finding the scale flagged optimal, clears the flag
UpdateScaleOnce(m) ==
    IF m.exc # "none" THEN m
    ELSE IF m.optimal.scale THEN [m EXCEPT !.optimal.scale = FALSE]
    ELSE IF m.optimal.beta
    THEN [m EXCEPT !.scale = OptimalScaleUsingOptimalBeta(m), !.optimal.scale = TRUE]
    ELSE [m EXCEPT !.scale = OptimalScaleAnyBeta(m), !.optimal.scale = TRUE]

\* LMM._update_scale
UpdateScale(m) ==
    IF m.exc # "none" THEN m
    ELSE IF m.optimal.beta
    THEN [m EXCEPT !.scale = OptimalScaleUsingOptimalBeta(m), !.optimal.scale = TRUE]
    ELSE [m EXCEPT !.scale = OptimalScaleAnyBeta(m), !.optimal.scale = TRUE]

\* the sign slogdet gives for a 1 x 1 matrix
Sign(a) == IF a[1] > 0 THEN 1 ELSE IF a[1] < 0 THEN -1 ELSE 0

\* determinants whose signs are not looked at
LogdetExcUnchecked(m) == "none"

\* LMM._logdetXX and LMM._logdetH: the exception they raise, if any
LogdetExc(m) ==
    IF ~m.restricted THEN "none"
    ELSE IF Sign(RDot(XsvdUS(m.X), XsvdUS(m.X))) # 1 THEN "ValueError"
    ELSE IF Sign(RDiv(tXTMtX(m), m.scale)) # 1 THEN "ValueError"
    ELSE "none"

\* LMM.lml: the exception it raises, if any
LmlExc(m) ==
    IF m.exc # "none" THEN m.exc ELSE LogdetExc(m)

\* value() that recomputes the scale whether it is fixed or not
ValueIgnoringFixedScale(m) ==
    LET m1 == IF ~m.fix["beta"] THEN UpdateBeta(m) ELSE m
        m2 == UpdateScale(m1)
    IN  [m2 EXCEPT !.exc = LmlExc(m2)]

\* LMM.value
Value(m) ==
    LET m1 == IF ~m.fix["beta"] THEN UpdateBeta(m) ELSE m
        m2 == IF ~m1.fix["scale"] THEN UpdateScale(m1) ELSE m1
    IN  [m2 EXCEPT !.exc = LmlExc(m2)]

\* LMM.mean() - y, the vector my of _lml_arbitrary_scale
MeanMinusY(m) ==
    asarray([i \in 1..Len(m.y) |-> RSub(RMul(XsvdUS(m.X)[i], m.tbeta), m.y[i])])

\* the term t0 + t1 - t2 of _lml_arbitrary_scale
LmlQuad(m) ==
    LET my == MeanMinusY(m)
        myTQ0 == ProjT(my, m.QS.Q0)
    IN  RSub(RAdd(RDot(DivV(myTQ0, D0(m)), myTQ0), RDiv(RDot(my, my), Delta(m))),
             RDiv(RDot(myTQ0, myTQ0), Delta(m)))

\* A log-likelihood is kept as the arguments of its formula
\*   (-df log(2 pi) - sub - n log(s) - logdetD(d)) / 2 + (log xx - log h) / 2,
\* with xx = h = 1 when the likelihood is not restricted.
\* LMM._lml_optimal_scale and LMM._lml_arbitrary_scale
LmlOptimalScale(m) ==
    [df |-> df(m), sub |-> RI(df(m)), s |-> m.scale, d |-> Delta(m)]
\* the quadratic term without the division by the scale
LmlArbitraryScaleUnscaled(m) ==
    [df |-> df(m), sub |-> LmlQuad(m), s |-> m.scale, d |-> Delta(m)]
LmlArbitraryScale(m) ==
    [df |-> df(m), sub |-> RDiv(LmlQuad(m), m.scale), s |-> m.scale, d |-> Delta(m)]

\* LMM._logdetD: the numbers whose logarithms it adds up
LogdetDArgs(m) ==
    D0(m) \o asarray([i \in 1..(Len(m.y) - Len(m.QS.S0)) |-> Delta(m)])

\* the arguments of slogdet in LMM._logdetXX and LMM._logdetH
LogdetXXArg(m) == IF ~m.restricted THEN ROne ELSE RDot(XsvdUS(m.X), XsvdUS(m.X))
LogdetHArg(m) == IF ~m.restricted THEN ROne ELSE RDiv(tXTMtX(m), m.scale)

\* an lml() that updates beta and scale before it evaluates
LmlRecomputing(m) ==
    LET u == Value(m)
    IN  [exc |-> u.exc, xx |-> LogdetXXArg(u), h |-> LogdetHArg(u),
         lml |-> LmlOptimalScale(u)]

\* LMM.lml: the exception raised, or the value returned
Lml(m) ==
    [exc |-> LmlExc(m), xx |-> LogdetXXArg(m), h |-> LogdetHArg(m),
     lml |-> IF m.optimal.scale THEN LmlOptimalScale(m) ELSE LmlArbitraryScale(m)]

\* LMM.beta (getter): rsolve(Vt, rsolve(US, mean())) with Vt = [[1]]
GetBeta(m) ==
    rsolve1(ROne, rsolve1(RDot(XsvdUS(m.X), XsvdUS(m.X)),
                          RDot(XsvdUS(m.X), ScaleV(m.tbeta, XsvdUS(m.X)))))

(***************************************************************************)
(* Small dense linear algebra on rationals; a square matrix is the         *)
(* sequence of its rows.                                                   *)
(***************************************************************************)
Min2(a, b) == IF a < b THEN a ELSE b
Idx(n) == asarray([i \in 1..n |-> i])
DropAt(s, k) == asarray([i \in 1..(Len(s) - 1) |-> IF i < k THEN s[i] ELSE s[i + 1]])
Minor(A, r, c) == asarray([i \in 1..(Len(A) - 1) |-> DropAt(DropAt(A, r)[i], c)])

RECURSIVE Det(_)
Det(A) ==
    IF Len(A) = 0 THEN ROne
    ELSE IF Len(A) = 1 THEN A[1][1]
    ELSE RSum(asarray([c \in 1..Len(A) |->
                 RMul(IF c % 2 = 1 THEN A[1][c] ELSE RNeg(A[1][c]),
                      Det(Minor(A, 1, c)))]))

\* A with its column c replaced by b
WithCol(A, c, b) ==
    asarray([i \in 1..Len(A) |-> asarray([j \in 1..Len(A) |-> IF j = c THEN b[i] ELSE A[i][j]])])
\* the solution of a regular system
Cramer(A, b) == asarray([c \in 1..Len(A) |-> RDiv(Det(WithCol(A, c, b)), Det(A))])

ZeroV(n) == asarray([i \in 1..n |-> RZero])
AddV(u, v) == asarray([i \in 1..Len(u) |-> RAdd(u[i], v[i])])
SubV(u, v) == asarray([i \in 1..Len(u) |-> RSub(u[i], v[i])])
AddM(A, B) == asarray([i \in 1..Len(A) |-> AddV(A[i], B[i])])
MatVec(A, x) == asarray([i \in 1..Len(A) |-> RDot(A[i], x)])

RECURSIVE SumV(_, _)
\* add.reduce over a list of vectors of length n
SumV(vs, n) == IF vs = <<>> THEN ZeroV(n) ELSE AddV(Head(vs), SumV(Tail(vs), n))
RECURSIVE SumM(_, _)
\* add.reduce over a list of n x n matrices
SumM(Ms, n) ==
    IF Ms = <<>> THEN asarray([i \in 1..n |-> ZeroV(n)]) ELSE AddM(Head(Ms), SumM(Tail(Ms), n))

IsZeroM(A) == \A i \in 1..Len(A) : \A j \in 1..Len(A) : RIsZero(A[i][j])
\* v with a zero put in at place k
InsertZero(v, k) ==
    asarray([i \in 1..(Len(v) + 1) |-> IF i < k THEN v[i] ELSE IF i = k THEN RZero ELSE v[i - 1]])

\* xp less its component along z
ProjectOut(xp, z) == SubV(xp, ScaleV(RDiv(RDot(xp, z), RDot(z, z)), z))
\* the direction z with A z = 0 and z[k] = 1, from the solution zs of the
\* system without row and column k
NullDir(zs, k) ==
    asarray([i \in 1..(Len(zs) + 1) |-> IF i = k THEN ROne ELSE RNeg(InsertZero(zs, k)[i])])
\* least norm when the matrix without row and column k is regular
lstsq_drop(A, b, k) ==
    ProjectOut(InsertZero(Cramer(Minor(A, k, k), DropAt(b, k)), k),
               NullDir(Cramer(Minor(A, k, k),
                              DropAt(asarray([i \in 1..Len(A) |-> A[i][k]]), k)), k))
\* least norm when A has rank one: A is a multiple of r r^T, r its row k
lstsq_rank1(A, b, k) == ScaleV(RDiv(b[k], RDot(A[k], A[k])), A[k])

\* numpy.linalg.lstsq on the consistent symmetric positive semi-definite
\* systems of at most three unknowns that the scanner builds: the solution
\* when the matrix is regular, and the solution of least norm otherwise
lstsq(A, b) ==
    IF ~RIsZero(Det(A)) THEN Cramer(A, b)
    ELSE IF IsZeroM(A) THEN ZeroV(Len(A))
    ELSE IF \E k \in 1..Len(A) : ~RIsZero(Det(Minor(A, k, k)))
    THEN lstsq_drop(A, b, CHOOSE k \in 1..Len(A) : ~RIsZero(Det(Minor(A, k, k))))
    ELSE lstsq_rank1(A, b, CHOOSE k \in 1..Len(A) : ~RIsZero(A[k][k]))

\* _solve without its except clause: the LinAlgError leaves the call
SolveNoCatch(A, b, fails) ==
    IF fails /\ RIsZero(Det(A))
    THEN [x |-> ZeroV(Len(A)), warned |-> FALSE, exc |-> "LinAlgError"]
    ELSE [x |-> lstsq(A, b), warned |-> FALSE, exc |-> "none"]

\* _solve(A, y): rsolve, and on LinAlgError a warning and the zero vector.
\* `fails` says whether the LAPACK routines behind rsolve raise LinAlgError
\* on a singular matrix in this run.
Solve(A, b, fails) ==
    IF fails /\ RIsZero(Det(A))
    THEN [x |-> ZeroV(Len(A)), warned |-> TRUE, exc |-> "none"]
    ELSE [x |-> lstsq(A, b), warned |-> FALSE, exc |-> "none"]

\* glimix_core._util.hsolve(A00, A01, A11, y0, y1): the 2 x 2 symmetric
\* system by Householder reductions from both sides; a pivot that is zero
\* is skipped, which gives the least-norm solution A y / tr(A)^2 of a
\* singular system
hsolve(A00, A01, A11, y0, y1) ==
    IF ~RIsZero(RSub(RMul(A00, A11), RMul(A01, A01)))
    THEN Cramer(<<(<<A00, A01>>), (<<A01, A11>>)>>, <<y0, y1>>)
    ELSE IF RIsZero(RAdd(A00, A11)) THEN <<RZero, RZero>>
    ELSE <<RDiv(RAdd(RMul(A00, y0), RMul(A01, y1)),
                RMul(RAdd(A00, A11), RAdd(A00, A11))),
           RDiv(RAdd(RMul(A01, y0), RMul(A11, y1)),
                RMul(RAdd(A00, A11), RAdd(A00, A11)))>>

(***************************************************************************)
(* FastScanner.  A list over the blocks of the decomposition is a          *)
(* sequence; the chunk arrays yTBM, XTBM and MTBM are indexed by block and *)
(* then by candidate.  A log-likelihood is kept as the two numbers it is   *)
(* assembled from: lml = (static_lml + add - n * log(logarg)) / 2, with    *)
(* static_lml the same for every result of one scanner.                    *)
(***************************************************************************)
NoneV == <<0, -1>>      \* None where a number may stand
Uninit == <<0, -2>>     \* a cell of numpy.empty that was not written yet
NChunksMax == 30

Qs(QS) == SelectSeq(<<QS.Q0, QS.Q1>>, LAMBDA Q : MatSize(Q) > 0)
\* r.min() > 0
MinPos(d) == \A i \in 1..Len(d) : RLt(RZero, d[i])
\* the places of zip(L, D), L of length len, that pass `if r.min() > 0`
Kept(len, D) == SelectSeq(Idx(Min2(len, Len(D))), LAMBDA i : MinPos(D[i]))

\* _yTBE(yTBX, set_size) and _ETBE(XTQDi, XTQ, set_size)
NewyTBE(yTBX, m) ==
    asarray([i \in 1..(Len(yTBX) + m) |-> IF i <= Len(yTBX) THEN yTBX[i] ELSE Uninit])
NewETBE(XTQDi, XTQ, m) ==
    LET c == Len(XTQDi)
    IN  asarray([r \in 1..(c + m) |-> asarray([t \in 1..(c + m) |->
            IF r <= c /\ t <= c THEN RDot(XTQDi[r], XTQ[t]) ELSE Uninit])])

\* a write of yTBM that also lands on the first baseline entry
set_yTBMClobbering(buf, yTBM, m) ==
    LET c == Len(buf) - m
    IN  asarray([i \in 1..Len(buf) |->
            IF i = 1 THEN yTBM[1] ELSE IF i <= c THEN buf[i] ELSE yTBM[i - c]])
\* _yTBE.set_yTBM, _ETBE.set_XTBM (both borders), _ETBE.set_MTBM
set_yTBM(buf, yTBM, m) ==
    LET c == Len(buf) - m
    IN  asarray([i \in 1..Len(buf) |-> IF i <= c THEN buf[i] ELSE yTBM[i - c]])
\* a write of XTBM that leaves the mirrored row as it was
set_XTBMColumnOnly(E, XTBM, m) ==
    LET c == Len(E) - m
    IN  asarray([r \in 1..Len(E) |-> asarray([t \in 1..Len(E) |->
            IF r <= c /\ t > c THEN XTBM[r][t - c] ELSE E[r][t]])])
set_XTBM(E, XTBM, m) ==
    LET c == Len(E) - m
    IN  asarray([r \in 1..Len(E) |-> asarray([t \in 1..Len(E) |->
            IF r <= c /\ t > c THEN XTBM[r][t - c]
            ELSE IF r > c /\ t <= c THEN XTBM[t][r - c]
            ELSE E[r][t]])])
set_MTBM(E, MTBM, m) ==
    LET c == Len(E) - m
    IN  asarray([r \in 1..Len(E) |-> asarray([t \in 1..Len(E) |->
            IF r > c /\ t > c THEN MTBM[r - c][t - c] ELSE E[r][t]])])

\* the views _yTBE.yTBX, _yTBE.yTBM, _ETBE.XTBX, _ETBE.XTBM, _ETBE.MTBM
View_yTBX(buf, m) == SubSeq(buf, 1, Len(buf) - m)
View_yTBM(buf, m) == SubSeq(buf, Len(buf) - m + 1, Len(buf))
View_XTBX(E, m) == asarray([r \in 1..(Len(E) - m) |-> SubSeq(E[r], 1, Len(E) - m)])
View_XTBM(E, m) == asarray([r \in 1..(Len(E) - m) |-> SubSeq(E[r], Len(E) - m + 1, Len(E))])
View_MTBM(E, m) ==
    asarray([r \in 1..m |-> SubSeq(E[Len(E) - m + r], Len(E) - m + 1, Len(E))])

\* a list D whose first block is S0 without the variance v
ScannerDNoShift(y, QS, v) ==
    (IF Len(QS.S0) > 0 THEN <<QS.S0>> ELSE <<>>)
    \o (IF Len(QS.S0) < Len(y)
        THEN <<asarray([i \in 1..(Len(y) - Len(QS.S0)) |-> v])>> ELSE <<>>)
\* the list D of FastScanner.__init__
ScannerD(y, QS, v) ==
    (IF Len(QS.S0) > 0
     THEN <<asarray([i \in 1..Len(QS.S0) |-> RAdd(QS.S0[i], v)])>> ELSE <<>>)
    \o (IF Len(QS.S0) < Len(y)
        THEN <<asarray([i \in 1..(Len(y) - Len(QS.S0)) |-> v])>> ELSE <<>>)

\* the fields FastScanner.__init__ stores
ScannerObj(y, X, QS, D, XTQ, yTQDi, XTQDi, yTBy, yTBX) ==
    [built |-> TRUE, y |-> y, X |-> X, QS |-> QS, D |-> D,
     XTQ |-> XTQ, yTQDi |-> yTQDi, XTQDi |-> XTQDi,
     yTBy |-> yTBy, yTBX |-> yTBX,
     ETBE |-> asarray([j \in 1..Min2(Len(XTQDi), Len(XTQ)) |->
                 NewETBE(XTQDi[j], XTQ[j], 1)]),
     yTBE |-> asarray([j \in 1..Len(yTBX) |-> NewyTBE(yTBX[j], 1)]),
     scale |-> NoneV]

\* yTBy and yTBX of FastScanner.__init__, from the lists before them
ScannerForms(y, X, QS, D, yTQ, XTQ, ky, yTQDi, XTQDi) ==
    ScannerObj(y, X, QS, D, XTQ, yTQDi, XTQDi,
               RSum(asarray([j \in 1..Len(ky) |-> RDot(yTQ[ky[j]], yTQDi[j])])),
               asarray([j \in 1..Min2(Len(yTQDi), Len(XTQ)) |->
                   asarray([r \in 1..NCols(X) |-> RDot(yTQDi[j], XTQ[j][r])])]))

\* yTQDi and XTQDi of FastScanner.__init__: the blocks that pass the filter
ScannerKept(y, X, QS, D, yTQ, XTQ, ky, kx) ==
    ScannerForms(y, X, QS, D, yTQ, XTQ, ky,
                 asarray([j \in 1..Len(ky) |-> DivV(yTQ[ky[j]], D[ky[j]])]),
                 asarray([j \in 1..Len(kx) |->
                     asarray([r \in 1..NCols(X) |-> DivV(XTQ[kx[j]][r], D[kx[j]])])]))

\* D, yTQ and XTQ of FastScanner.__init__
ScannerBuild(y, X, QS, D, Q) ==
    ScannerKept(y, X, QS, D,
                asarray([b \in 1..Len(Q) |-> ProjT(y, Q[b])]),
                asarray([b \in 1..Len(Q) |-> asarray([r \in 1..NCols(X) |-> ProjT(X.cols[r], Q[b])])]),
                Kept(Len(Q), D), Kept(Len(Q), D))

\* a constructor that takes any variance
FastScannerInitAnyV(y, X, QS, v) ==
    IF ~IsAllFinite(y) THEN Raised("ValueError")
    ELSE IF ~IsAllFinite(MatFlat(X)) THEN Raised("ValueError")
    ELSE Built([built |-> TRUE, scale |-> NoneV])

\* FastScanner.__init__(y, X, QS, v)
FastScannerInit(y, X, QS, v) ==
    IF ~IsAllFinite(y) THEN Raised("ValueError")
    ELSE IF ~IsAllFinite(MatFlat(X)) THEN Raised("ValueError")
    ELSE IF RLt(v, RZero) THEN Raised("ValueError")
    ELSE IF ~IsFinite(v) THEN Raised("ValueError")
    ELSE Built(ScannerBuild(y, X, QS, ScannerD(y, QS, v), Qs(QS)))

\* FastScanner._nsamples, FastScanner._ncovariates
sc_nsamples(sc) == sc.QS.Q0.rows
sc_ncovariates(sc) == NCols(sc.X)

\* the chunk arrays of _fast_scan_chunk and scan: MTQ for the columns Mc,
\* and yTBM, XTBM, MTBM from it
MTQ(sc, Mc) ==
    asarray([b \in 1..Len(Qs(sc.QS)) |-> asarray([i \in 1..Len(Mc) |-> ProjT(Mc[i], Qs(sc.QS)[b])])])
yTBM(sc, mtq) ==
    asarray([j \in 1..Min2(Len(sc.yTQDi), Len(mtq)) |->
        asarray([i \in 1..Len(mtq[j]) |-> RDot(sc.yTQDi[j], mtq[j][i])])])
XTBM(sc, mtq) ==
    asarray([j \in 1..Min2(Len(sc.XTQDi), Len(mtq)) |->
        asarray([r \in 1..sc_ncovariates(sc) |->
            asarray([i \in 1..Len(mtq[j]) |-> RDot(sc.XTQDi[j][r], mtq[j][i])])])])
\* sum(i / j * i, 1) for the kept places k: the diagonal only
MTBMdiag(sc, mtq, k) ==
    asarray([j \in 1..Len(k) |-> asarray([i \in 1..Len(mtq[k[j]]) |->
        RDot(DivV(mtq[k[j]][i], sc.D[k[j]]), mtq[k[j]][i])])])
\* ddot(i, 1 / j) @ i.T for the kept places k
MTBMfull(sc, mtq, k) ==
    asarray([j \in 1..Len(k) |-> asarray([a \in 1..Len(mtq[k[j]]) |-> asarray([b \in 1..Len(mtq[k[j]]) |->
        RDot(DivV(mtq[k[j]][a], sc.D[k[j]]), mtq[k[j]][b])])])])

\* a residual form that drops the cross term between covariates and candidate
bstarNoCross(beta, alpha, yTBy, yTBX_, yTBM_, XTBX_, XTBM_, MTBM_) ==
    RAdd(RSub(RSub(yTBy,
        RMul(RI(2), RSum(asarray([j \in 1..Len(yTBX_) |-> RDot(yTBX_[j], beta)])))),
        RMul(RI(2), RSum(asarray([j \in 1..Len(yTBM_) |-> RDot(yTBM_[j], alpha)])))),
      RAdd(RSum(asarray([j \in 1..Len(XTBX_) |-> RDot(beta, MatVec(XTBX_[j], beta))])),
           RSum(asarray([j \in 1..Len(MTBM_) |-> RDot(alpha, MatVec(MTBM_[j], alpha))]))))

\* _bstar_set, and _bstar_1effect for one candidate: the residual sum of
\* squares  yTBy - 2 yTBX b - 2 yTBM a + b XTBX b + 2 b XTBM a + a MTBM a
bstar(beta, alpha, yTBy, yTBX_, yTBM_, XTBX_, XTBM_, MTBM_) ==
    RAdd(RSub(RSub(yTBy,
        RMul(RI(2), RSum(asarray([j \in 1..Len(yTBX_) |-> RDot(yTBX_[j], beta)])))),
        RMul(RI(2), RSum(asarray([j \in 1..Len(yTBM_) |-> RDot(yTBM_[j], alpha)])))),
      RAdd(RSum(asarray([j \in 1..Len(XTBX_) |-> RDot(beta, MatVec(XTBX_[j], beta))])),
        RAdd(RMul(RI(2), RSum(asarray([j \in 1..Len(XTBM_) |->
                                  RDot(beta, MatVec(XTBM_[j], alpha))]))),
             RSum(asarray([j \in 1..Len(MTBM_) |-> RDot(alpha, MatVec(MTBM_[j], alpha))])))))

\* _bstar_unpack
bstar_unpack(beta, alpha, yTBy, yTBE, ETBE, m) ==
    bstar(beta, alpha, yTBy,
          asarray([j \in 1..Len(yTBE) |-> View_yTBX(yTBE[j], m)]),
          asarray([j \in 1..Len(yTBE) |-> View_yTBM(yTBE[j], m)]),
          asarray([j \in 1..Len(ETBE) |-> View_XTBX(ETBE[j], m)]),
          asarray([j \in 1..Len(ETBE) |-> View_XTBM(ETBE[j], m)]),
          asarray([j \in 1..Len(ETBE) |-> View_MTBM(ETBE[j], m)]))

\* _safe_log(x) = log(clip(x, epsilon.small, inf)): the argument of the log
safe_log_arg(x) == RMax(x, EpsSmall)

RECURSIVE Concat(_)
Concat(blocks) == IF blocks = <<>> THEN <<>> ELSE Head(blocks) \o Concat(Tail(blocks))
\* FastScanner._static_lml = -n log(2 pi) - n - sum of _safe_log(D): the
\* numbers whose logarithms it adds up
static_lml_args(sc) ==
    asarray([i \in 1..Len(Concat(sc.D)) |-> safe_log_arg(Concat(sc.D)[i])])

\* the scale a row gets: the optimal one unless set_scale() stored one
RowScale(sc, b) ==
    IF sc.scale = NoneV THEN RDiv(b, RI(sc_nsamples(sc))) ELSE sc.scale

\* a row that takes the optimal scale whatever set_scale() stored
RowOfIgnoringScale(sc, b, effsize) ==
    [lml |-> [add |-> RZero,
              logarg |-> safe_log_arg(RDiv(b, RI(sc_nsamples(sc))))],
     effsize |-> effsize, scale |-> RDiv(b, RI(sc_nsamples(sc)))]

\* the scale and log-likelihood both loops and scan() give a candidate with
\* residual sum of squares b
RowOf(sc, b, effsize) ==
    [lml |-> [add |-> IF sc.scale = NoneV THEN RZero
                      ELSE RSub(RI(sc_nsamples(sc)), RDiv(b, RowScale(sc, b))),
              logarg |-> safe_log_arg(RowScale(sc, b))],
     effsize |-> effsize, scale |-> RowScale(sc, b)]

\* what a scanner method gives: the exception that left it (or "none"), the
\* scanner after it, its result rows and the warnings it issued
ScanRet(exc, sc, rows, warned) ==
    [exc |-> exc, sc |-> sc, rows |-> rows, warned |-> warned]

\* FastScanner._1covariate_loop, candidate i: the row from the solution x
onecovariate_done(sc, yTBM_, XTBM_, MTBM_, i, x) ==
    RowOf(sc, bstar(<<x[1]>>, <<x[2]>>, sc.yTBy, sc.yTBX,
                    asarray([j \in 1..Len(yTBM_) |-> <<yTBM_[j][i]>>]),
                    asarray([j \in 1..Len(sc.ETBE) |-> View_XTBX(sc.ETBE[j], 1)]),
                    asarray([j \in 1..Len(XTBM_) |-> <<(<<XTBM_[j][1][i]>>)>>]),
                    asarray([j \in 1..Len(MTBM_) |-> <<(<<MTBM_[j][i]>>)>>])),
          x[2])

\* FastScanner._1covariate_loop, candidate i of the chunk
onecovariate_row(sc, yTBM_, XTBM_, MTBM_, i) ==
    onecovariate_done(sc, yTBM_, XTBM_, MTBM_, i,
        hsolve(RSum(asarray([j \in 1..Len(sc.ETBE) |-> View_XTBX(sc.ETBE[j], 1)[1][1]])),
               RSum(asarray([j \in 1..Len(XTBM_) |-> XTBM_[j][1][i]])),
               RSum(asarray([j \in 1..Len(MTBM_) |-> MTBM_[j][i]])),
               RSum(asarray([j \in 1..Len(sc.yTBX) |-> sc.yTBX[j][1]])),
               RSum(asarray([j \in 1..Len(yTBM_) |-> yTBM_[j][i]]))))

\* FastScanner._1covariate_loop over a chunk of pc candidates
onecovariate_loop(sc, pc, yTBM_, XTBM_, MTBM_) ==
    IF Len(MTBM_) = 0 THEN ScanRet("IndexError", sc, <<>>, 0)
    ELSE ScanRet("none", sc,
                 asarray([i \in 1..pc |-> onecovariate_row(sc, yTBM_, XTBM_, MTBM_, i)]), 0)

\* the inner loop of _multicovariate_loop: the borders of the scanner's own
\* buffers take the numbers of candidate i
WriteBorders(sc, yTBM_, XTBM_, MTBM_, i) ==
    [sc EXCEPT
       !.yTBE = asarray([j \in 1..Len(sc.yTBE) |->
                    set_yTBM(sc.yTBE[j], <<yTBM_[j][i]>>, 1)]),
       !.ETBE = asarray([j \in 1..Len(sc.ETBE) |->
                    IF j > Len(sc.yTBE) THEN sc.ETBE[j]
                    ELSE set_MTBM(set_XTBM(sc.ETBE[j],
                                           asarray([r \in 1..sc_ncovariates(sc) |->
                                               <<XTBM_[j][r][i]>>]), 1),
                                  <<(<<MTBM_[j][i]>>)>>, 1)])]

\* a solve that gives up on every singular system
SolveBuffersGivingUp(sc, fails) ==
    Solve(SumM(sc.ETBE, sc_ncovariates(sc) + 1),
          SumV(sc.yTBE, sc_ncovariates(sc) + 1), TRUE)
\* left and right of _multicovariate_loop, solved
SolveBuffers(sc, fails) ==
    Solve(SumM(sc.ETBE, sc_ncovariates(sc) + 1),
          SumV(sc.yTBE, sc_ncovariates(sc) + 1), fails)

\* the row _multicovariate_loop fills from the solution x
multicovariate_row(sc, x) ==
    RowOf(sc, bstar_unpack(SubSeq(x, 1, Len(x) - 1), SubSeq(x, Len(x), Len(x)),
                           sc.yTBy, sc.yTBE, sc.ETBE, 1),
          x[Len(x)])

RECURSIVE multicovariate_loop(_, _, _, _, _, _, _, _, _)
RECURSIVE multicovariate_solved(_, _, _, _, _, _, _, _, _, _)
\* FastScanner._multicovariate_loop, candidate i once its system is solved
multicovariate_solved(sc, r, i, pc, yTBM_, XTBM_, MTBM_, rows, warned, fails) ==
    IF r.exc # "none" THEN ScanRet(r.exc, sc, rows, warned)
    ELSE multicovariate_loop(sc, i + 1, pc, yTBM_, XTBM_, MTBM_,
                             Append(rows, multicovariate_row(sc, r.x)),
                             warned + (IF r.warned THEN 1 ELSE 0), fails)

\* FastScanner._multicovariate_loop once the borders of candidate i are in
multicovariate_written(sc, i, pc, yTBM_, XTBM_, MTBM_, rows, warned, fails) ==
    multicovariate_solved(sc, SolveBuffers(sc, fails), i, pc,
                          yTBM_, XTBM_, MTBM_, rows, warned, fails)

\* FastScanner._multicovariate_loop from candidate i on
multicovariate_loop(sc, i, pc, yTBM_, XTBM_, MTBM_, rows, warned, fails) ==
    IF i > pc THEN ScanRet("none", sc, rows, warned)
    ELSE IF \/ Len(yTBM_) < Len(sc.yTBE) \/ Len(XTBM_) < Len(sc.yTBE)
            \/ Len(MTBM_) < Len(sc.yTBE) \/ Len(sc.ETBE) < Len(sc.yTBE)
    THEN ScanRet("IndexError", sc, rows, warned)
    ELSE multicovariate_written(WriteBorders(sc, yTBM_, XTBM_, MTBM_, i), i, pc,
                                yTBM_, XTBM_, MTBM_, rows, warned, fails)

\* a chunk that always goes through the general solve
chunk_loopsGeneral(sc, pc, mtq, fails) ==
    IF Min2(Len(sc.XTQDi), Len(mtq)) = 0
    THEN ScanRet("IndexError", sc, <<>>, 0)
    ELSE multicovariate_loop(sc, 1, pc, yTBM(sc, mtq), XTBM(sc, mtq),
                             MTBMdiag(sc, mtq, Kept(Len(mtq), sc.D)),
                             <<>>, 0, fails)
\* _fast_scan_chunk after MTQ
chunk_loops(sc, pc, mtq, fails) ==
    IF sc_ncovariates(sc) = 1
    THEN onecovariate_loop(sc, pc, yTBM(sc, mtq), XTBM(sc, mtq),
                           MTBMdiag(sc, mtq, Kept(Len(mtq), sc.D)))
    ELSE IF Min2(Len(sc.XTQDi), Len(mtq)) = 0
    THEN ScanRet("IndexError", sc, <<>>, 0)
    ELSE multicovariate_loop(sc, 1, pc, yTBM(sc, mtq), XTBM(sc, mtq),
                             MTBMdiag(sc, mtq, Kept(Len(mtq), sc.D)),
                             <<>>, 0, fails)

\* FastScanner._fast_scan_chunk(M), M given by its columns
fast_scan_chunk(sc, Mc, fails) ==
    IF \E i \in 1..Len(Mc) : ~IsAllFinite(Mc[i])
    THEN ScanRet("ValueError", sc, <<>>, 0)
    ELSE chunk_loops(sc, Len(Mc), MTQ(sc, Mc), fails)

\* the numbers of chunks and the chunk size of fast_scan
NChunks(p, verbose) == IF verbose THEN Min2(p, NChunksMax) ELSE Min2(p, 1)
\* a chunk size rounded down
ChunkSizeFloor(p, nchunks) == p \div nchunks
ChunkSize(p, nchunks) == (p + nchunks - 1) \div nchunks
\* chunk i (from 0) of fast_scan: the slice start:stop
ChunkStart(i, p, verbose) == i * ChunkSize(p, NChunks(p, verbose))
ChunkStop(i, p, verbose) ==
    Min2(ChunkStart(i, p, verbose) + ChunkSize(p, NChunks(p, verbose)), p)
\* M[:, start:stop] and out[start:stop] = l
Slice(cols, start, stop) ==
    IF start >= stop THEN <<>> ELSE SubSeq(cols, start + 1, stop)
SliceAssign(arr, start, stop, l) ==
    asarray([k \in 1..Len(arr) |-> IF start < k /\ k <= stop THEN l[k - start] ELSE arr[k]])

UninitRow == [lml |-> Uninit, effsize |-> Uninit, scale |-> Uninit]

RECURSIVE fast_scan_loop(_, _, _, _, _, _, _)
\* the body of the chunk loop of fast_scan after _fast_scan_chunk gave r
fast_scan_assign(r, M, verbose, i, rows, warned, fails) ==
    IF r.exc # "none" THEN ScanRet(r.exc, r.sc, rows, warned + r.warned)
    ELSE fast_scan_loop(r.sc, M, verbose, i + 1,
                        SliceAssign(rows, ChunkStart(i, NCols(M), verbose),
                                    ChunkStop(i, NCols(M), verbose), r.rows),
                        warned + r.warned, fails)

\* the chunk loop of fast_scan from chunk i on
fast_scan_loop(sc, M, verbose, i, rows, warned, fails) ==
    IF i >= NChunks(NCols(M), verbose) THEN ScanRet("none", sc, rows, warned)
    ELSE fast_scan_assign(
           fast_scan_chunk(sc, Slice(M.cols, ChunkStart(i, NCols(M), verbose),
                                     ChunkStop(i, NCols(M), verbose)), fails),
           M, verbose, i, rows, warned, fails)

\* FastScanner.fast_scan(M, verbose)
fast_scan(sc, M, verbose, fails) ==
    IF NChunks(NCols(M), verbose) = 0
    THEN ScanRet("ZeroDivisionError", sc, <<>>, 0)
    ELSE fast_scan_loop(sc, M, verbose, 0, asarray([k \in 1..NCols(M) |-> UninitRow]),
                        0, fails)

\* _multicovariate_set_loop once the system of the fresh buffers is solved
set_loop_solved(sc, m, yTBE, ETBE, r) ==
    IF r.exc # "none" THEN ScanRet(r.exc, sc, <<>>, 0)
    ELSE ScanRet("none", sc,
                 <<RowOf(sc, bstar_unpack(SubSeq(r.x, 1, Len(r.x) - m),
                                          SubSeq(r.x, Len(r.x) - m + 1, Len(r.x)),
                                          sc.yTBy, yTBE, ETBE, m),
                         SubSeq(r.x, Len(r.x) - m + 1, Len(r.x)))>>,
                 IF r.warned THEN 1 ELSE 0)

\* _multicovariate_set_loop once its fresh buffers are filled
set_loop_filled(sc, m, yTBE, ETBE, fails) ==
    set_loop_solved(sc, m, yTBE, ETBE,
                    Solve(SumM(ETBE, sc_ncovariates(sc) + m),
                          SumV(yTBE, sc_ncovariates(sc) + m), fails))

\* FastScanner._multicovariate_set_loop(yTBM, XTBM, MTBM) for m columns
multicovariate_set_loop(sc, m, yTBM_, XTBM_, MTBM_, fails) ==
    IF Len(yTBM_) = 0 THEN ScanRet("IndexError", sc, <<>>, 0)
    ELSE set_loop_filled(sc, m,
           asarray([j \in 1..Min2(Len(sc.yTBX), Len(yTBM_)) |->
               set_yTBM(NewyTBE(sc.yTBX[j], m), yTBM_[j], m)]),
           asarray([j \in 1..Min2(Len(sc.XTQDi), Len(sc.XTQ)) |->
               IF j > Min2(Len(XTBM_), Len(MTBM_))
               THEN NewETBE(sc.XTQDi[j], sc.XTQ[j], m)
               ELSE set_MTBM(set_XTBM(NewETBE(sc.XTQDi[j], sc.XTQ[j], m),
                                      XTBM_[j], m), MTBM_[j], m)]),
           fails)

\* scan after MTQ
scan_arrays(sc, m, mtq, fails) ==
    multicovariate_set_loop(sc, m, yTBM(sc, mtq), XTBM(sc, mtq),
                            MTBMfull(sc, mtq, Kept(Len(mtq), sc.D)), fails)

\* FastScanner.scan(M): the columns of M as one joint effect
scan(sc, M, fails) == scan_arrays(sc, NCols(M), MTQ(sc, M.cols), fails)

\* null_lml once beta is solved: sqrdot, the scale, and the plain logarithm
null_lml_solved(sc, b, r) ==
    IF r.exc # "none" THEN ScanRet(r.exc, sc, <<>>, 0)
    ELSE ScanRet("none", sc,
                 <<[lml |-> [add |-> IF sc.scale = NoneV THEN RZero
                                     ELSE RSub(RI(sc_nsamples(sc)),
                                               RDiv(RSub(sc.yTBy, RDot(b, r.x)),
                                                    sc.scale)),
                             logarg |-> RowScale(sc, RSub(sc.yTBy, RDot(b, r.x)))],
                    effsize |-> r.x,
                    scale |-> RowScale(sc, RSub(sc.yTBy, RDot(b, r.x)))]>>,
                 IF r.warned THEN 1 ELSE 0)

\* null_lml once A and b are summed
null_lml_sums(sc, A, b, fails) == null_lml_solved(sc, b, Solve(A, b, fails))

\* FastScanner.null_lml() of a scanner that kept at least one block
null_lml(sc, fails) ==
    null_lml_sums(sc,
        SumM(asarray([j \in 1..Len(sc.ETBE) |-> View_XTBX(sc.ETBE[j], 1)]),
             sc_ncovariates(sc)),
        SumV(sc.yTBX, sc_ncovariates(sc)), fails)

\* FastScanner.set_scale(scale), FastScanner.unset_scale()
set_scale(sc, scale) == [sc EXCEPT !.scale = scale]
unset_scale(sc) == [sc EXCEPT !.scale = NoneV]

\* LMM.v0, LMM.v1
v0(m) == RMul(m.scale, RSub(ROne, Delta(m)))
v1(m) == RMul(m.scale, Delta(m))

\* arguments that swap the two variances
ScannerArgsSwapped(m) ==
    [y |-> m.y, X |-> m.X, QS |-> [m.QS EXCEPT !.S0 = ScaleV(v1(m), m.QS.S0)],
     v |-> v0(m)]

\* the arguments LMM.get_fast_scanner() passes to FastScanner
ScannerArgs(m) ==
    [y |-> m.y, X |-> m.X, QS |-> [m.QS EXCEPT !.S0 = ScaleV(v0(m), m.QS.S0)],
     v |-> v1(m)]

\* LMM.get_fast_scanner()
get_fast_scanner(m) ==
    FastScannerInit(ScannerArgs(m).y, ScannerArgs(m).X, ScannerArgs(m).QS,
                    ScannerArgs(m).v)

(***************************************************************************)
(* Inputs of the model.                                                    *)
(***************************************************************************)
\* the optimizer evaluates the objective at most MaxTrials times in a fit()
MaxTrials == 2

YIn == {IV(<<1, 2>>), <<>>, <<NaN, RI(2)>>, <<RI(1), Inf>>}
XIn == {Mat(2, <<IV(<<1, 1>>)>>), Mat(2, <<(<<RI(1), NaN>>)>>),
        Mat(3, <<IV(<<1, 1, 1>>)>>), Mat(0, <<(<<>>)>>)}
QSIn == {NoQS, QS2, QS3}
DeltaIn == {RZero, Rat(1, 4), RI(2)}
BetaIn == {ROne}
ScaleIn == {RI(2), RI(-1)}
ParamIn == {"delta", "beta", "scale"}
\* a name that is not one of the three parameters
UnknownParamIn == {"v0"}
\* matrices a caller may try to assign to X
XSetIn == {Mat(2, <<IV(<<1, 3>>)>>), Mat(2, <<IV(<<0, 0>>)>>)}
\* points of [-logmax, +logmax] the optimizer may try, as odds
TrialOdds == {Rat(1, OddsMax), RI(3)}

\* public calls made on the LMM in a run that hands out scanners
MaxCalls == 3
\* columns of the longest candidate matrix
MaxCols == 4
\* the longest candidate matrix whose chunks are laid out
MaxP == 40

NegInf == <<-1, 0>>
\* a decomposition over four samples
QS4 == MkQS(Mat(4, <<IV(<<0, 1, 0, 0>>)>>),
            Mat(4, <<IV(<<-1, 0, 0, 0>>), IV(<<0, 0, 1, 0>>), IV(<<0, 0, 0, 1>>)>>),
            IV(<<2>>))
\* FastScanner(y, X, QS, v) over four samples
SYIn == {IV(<<1, 2, 4, 3>>), <<RI(1), NaN, RI(0), RI(0)>>,
         <<Inf, RI(1), RI(1), RI(1)>>}
SXIn == {Mat(4, <<IV(<<1, 1, 1, 1>>)>>),
         Mat(4, <<IV(<<1, 1, 1, 1>>), IV(<<0, 1, 2, 0>>)>>),
         Mat(4, <<(<<RI(1), NaN, RI(1), RI(1)>>)>>)}
SQSIn == {QS4, economic_qs_zeros(4)}
VIn == {RZero, ROne, RI(-1), NaN, Inf, NegInf}
SetScaleIn == {Rat(1, 2), RI(2)}
\* candidate columns: the zero column, one of full rank, and the two
\* covariates again (redundant candidates)
CandCols == <<IV(<<0, 0, 0, 0>>), IV(<<1, 0, 2, 0>>), IV(<<1, 1, 1, 1>>),
              IV(<<0, 1, 2, 0>>)>>
CandM(p) == Mat(4, asarray([i \in 1..p |-> CandCols[((i - 1) % Len(CandCols)) + 1]]))
\* candidate matrices of fast_scan()
MIn == {CandM(p) : p \in {0, 1, 2, MaxCols}}
\* candidate sets of scan()
SetIn == {CandM(1), Mat(4, <<CandCols[2]>>), Mat(4, <<CandCols[3]>>)}

(***************************************************************************)
(* State.                                                                  *)
(***************************************************************************)
VARIABLES
    args,     \* the arguments LMM(...) was called with
    res,      \* what the constructor call gave: [ok, exc]
    lmm,      \* the LMM object (when res.ok)
    pc,       \* where the running fit() is: idle, search, eval, beta, scale
    last,     \* the step made last: init, set_delta, unfix, call (any
              \* other accessor), or the step of fit()
    err,      \* the exception the last public call raised, or "none"
    ntrials,  \* objective evaluations made by the running search
    tried,    \* the points the running search has evaluated
    fitLog,   \* the phases that fit() has gone through, kept until the
              \* next call
    sargs,    \* the arguments FastScanner(...) was called with
    sc,       \* the FastScanner object (when built)
    out,      \* the arguments and the result of the last scanner method
    fails,    \* whether LAPACK raises LinAlgError on singular systems
    calls,    \* public LMM calls made so far; -1 when they are not counted
    workers,  \* the threads that scan concurrently, and their scanners
    refit     \* the calls of fit() that returned one right after the other,
              \* and the object the one before the last left

vars == <<args, res, lmm, pc, last, err, ntrials, tried, fitLog,
          sargs, sc, out, fails, calls, workers, refit>>

NoLMM == [exc |-> "none"]
NoArgs == [v |-> NoneV]
NoSc == [built |-> FALSE, scale |-> NoneV]
NoOut == [warned |-> 0]
NoWorkers == [th |-> <<>>]
NoRefit == [n |-> 0, before |-> NoLMM]

\* LMM(y, X, QS, restricted)
Init ==
    \E y \in YIn, X \in XIn, QS \in QSIn, r \in BOOLEAN :
        LET c == LMMInit(y, X, QS, r)
        IN  /\ args = [y |-> y, X |-> X, QS |-> QS, restricted |-> r]
            /\ res = [ok |-> c.ok, exc |-> c.exc]
            /\ lmm = IF c.ok THEN c.obj ELSE NoLMM
            /\ pc = "idle"
            /\ last = "init"
            /\ err = c.exc
            /\ ntrials = 0
            /\ tried = {}
            /\ fitLog = <<>>
            /\ sargs = NoArgs
            /\ sc = NoSc
            /\ out = NoOut
            /\ fails = FALSE
            /\ calls = -1
            /\ workers = NoWorkers
            /\ refit = NoRefit

\* one more public call on the LMM, which leaves every scanner alone
Tick ==
    /\ calls < MaxCalls
    /\ calls' = IF calls < 0 THEN calls ELSE calls + 1
    /\ UNCHANGED <<sargs, sc, out, fails, workers>>
\* a step inside fit()
Tock == UNCHANGED <<sargs, sc, out, fails, calls, workers>>
\* a public call other than fit() starts the count of fits again
NoFit == refit' = NoRefit

Idle == res.ok /\ pc = "idle"

\* a public call that is not fit(): the object after it and the call's name
Call(m, name) ==
    /\ lmm' = m
    /\ last' = name
    /\ err' = "none"
    /\ ntrials' = 0
    /\ tried' = {}
    /\ fitLog' = <<>>
    /\ Tick
    /\ NoFit
    /\ UNCHANGED <<args, res, pc>>

\* a public call that leaves the object as it is and may raise e
Read(name, e) ==
    /\ lmm' = lmm
    /\ last' = name
    /\ err' = e
    /\ ntrials' = 0
    /\ tried' = {}
    /\ fitLog' = <<>>
    /\ Tick
    /\ NoFit
    /\ UNCHANGED <<args, res, pc>>

\* lmm.X = X
AssignX ==
    /\ Idle
    /\ \E X \in XSetIn :
         /\ lmm' = [SetX(lmm, X) EXCEPT !.exc = "none"]
         /\ err' = SetX(lmm, X).exc
    /\ last' = "set_X"
    /\ ntrials' = 0
    /\ tried' = {}
    /\ fitLog' = <<>>
    /\ Tick
    /\ NoFit
    /\ UNCHANGED <<args, res, pc>>

\* lmm.lml() and lmm.beta
DoLml == Idle /\ Read("lml", Lml(lmm).exc)
ReadBeta == Idle /\ Read("beta", "none")

AssignDelta == Idle /\ \E d \in DeltaIn : Call(SetDelta(lmm, d), "set_delta")
AssignBeta == Idle /\ \E b \in BetaIn : Call(SetBeta(lmm, b), "call")
AssignScale == Idle /\ \E s \in ScaleIn : Call(SetScale(lmm, s), "call")
DoFix == Idle /\ \E p \in ParamIn : Call(Fix(lmm, p), "call")
DoUnfix == Idle /\ \E p \in ParamIn : Call(Unfix(lmm, p), "unfix")

(***************************************************************************)
(* LMM.fit, step by step.  The search of _maximize_scalar (optimix) sets   *)
(* the logistic variable to a trial point, which notifies _delta_update,   *)
(* and evaluates value() there; when it stops it sets the variable to one  *)
(* of the points it evaluated.                                             *)
(***************************************************************************)
\* a fit() that searches whether delta is fixed or not
FitAlwaysSearches(m) == "search"

\* the first statement of fit(): the search runs unless delta is fixed
FitFirstPhase(m) == IF ~m.dfixed THEN "search" ELSE "beta"

FitEnter ==
    /\ Idle
    /\ pc' = FitFirstPhase(lmm)
    /\ fitLog' = IF pc' = "search" THEN <<"search">> ELSE <<>>
    /\ ntrials' = 0
    /\ tried' = {}
    /\ last' = "fit_enter"
    /\ err' = "none"
    /\ refit' = [refit EXCEPT !.before = IF refit.n = 0 THEN NoLMM ELSE lmm]
    /\ Tick
    /\ UNCHANGED <<args, res, lmm>>

SearchSet ==
    /\ pc = "search"
    /\ ntrials < MaxTrials
    /\ \E x \in TrialOdds :
         /\ lmm' = SetLogistic(lmm, x)
         /\ tried' = tried \cup {x}
    /\ pc' = "eval"
    /\ last' = "opt_set"
    /\ Tock
    /\ UNCHANGED <<args, res, err, ntrials, fitLog, refit>>

SearchEval ==
    /\ pc = "eval"
    /\ LET m == Value(lmm)
       IN  /\ lmm' = [m EXCEPT !.exc = "none"]
           /\ err' = m.exc
           /\ pc' = IF m.exc = "none" THEN "search" ELSE "idle"
           /\ last' = IF m.exc = "none" THEN "value" ELSE "fit_raised"
    /\ ntrials' = ntrials + 1
    /\ refit' = IF pc' = "idle" THEN NoRefit ELSE refit
    /\ Tock
    /\ UNCHANGED <<args, res, tried, fitLog>>

SearchEnd ==
    /\ pc = "search"
    /\ ntrials >= 1
    /\ \E x \in tried : lmm' = SetLogistic(lmm, x)
    /\ pc' = "beta"
    /\ last' = "opt_set"
    /\ Tock
    /\ UNCHANGED <<args, res, err, ntrials, tried, fitLog, refit>>

\* a second statement of fit() that does not look at the fix of beta
FitBetaStepUnguarded(m) == UpdateBeta(m)
\* the second statement of fit()
FitBetaStep(m) == IF ~m.fix["beta"] THEN UpdateBeta(m) ELSE m
\* the third statement of fit()
FitScaleStep(m) == IF ~m.fix["scale"] THEN UpdateScale(m) ELSE m

FitBeta ==
    /\ pc = "beta"
    /\ lmm' = FitBetaStep(lmm)
    /\ fitLog' = IF ~lmm.fix["beta"] THEN Append(fitLog, "beta") ELSE fitLog
    /\ pc' = "scale"
    /\ last' = "fit_beta"
    /\ Tock
    /\ UNCHANGED <<args, res, err, ntrials, tried, refit>>

FitScale ==
    /\ pc = "scale"
    /\ lmm' = FitScaleStep(lmm)
    /\ fitLog' = IF ~lmm.fix["scale"] THEN Append(fitLog, "scale") ELSE fitLog
    /\ pc' = "idle"
    /\ last' = "fit"
    /\ refit' = [refit EXCEPT !.n = Min2(refit.n + 1, 2)]
    /\ Tock
    /\ UNCHANGED <<args, res, err, ntrials, tried>>

Next ==
    \/ AssignDelta
    \/ AssignBeta
    \/ AssignScale
    \/ DoFix
    \/ DoUnfix
    \/ AssignX
    \/ DoLml
    \/ ReadBeta
    \/ FitEnter
    \/ SearchSet
    \/ SearchEval
    \/ SearchEnd
    \/ FitBeta
    \/ FitScale

Spec == Init /\ [][Next]_vars

(***************************************************************************)
(* An LMM over a single sample: the covariate column, when it is not zero, *)
(* has as many linearly independent columns as there are samples.          *)
(***************************************************************************)
\* the decomposition of the 1 x 1 matrix K = [[2]]: Q0 = [[1]], Q1 is empty
QS1 == MkQS(Mat(1, <<IV(<<1>>)>>), Mat(1, <<>>), IV(<<2>>))
Y1In == {IV(<<3>>)}
X1In == {Mat(1, <<IV(<<1>>)>>)}
QS1In == {NoQS, QS1}

\* LMM(y, X, QS, restricted) with one sample
InitRank ==
    \E y \in Y1In, X \in X1In, QS \in QS1In, r \in BOOLEAN :
        LET c == LMMInit(y, X, QS, r)
        IN  /\ args = [y |-> y, X |-> X, QS |-> QS, restricted |-> r]
            /\ res = [ok |-> c.ok, exc |-> c.exc]
            /\ lmm = IF c.ok THEN c.obj ELSE NoLMM
            /\ pc = "idle"
            /\ last = "init"
            /\ err = c.exc
            /\ ntrials = 0
            /\ tried = {}
            /\ fitLog = <<>>
            /\ sargs = NoArgs
            /\ sc = NoSc
            /\ out = NoOut
            /\ fails = FALSE
            /\ calls = -1
            /\ workers = NoWorkers
            /\ refit = NoRefit

SpecRank == InitRank /\ [][Next]_vars

(***************************************************************************)
(* An LMM that hands out scanners: the LMM operations and                  *)
(* get_fast_scanner(), in runs of at most MaxCalls public calls.           *)
(***************************************************************************)
InitSnap ==
    \E y \in YIn, X \in XIn, QS \in QSIn, r \in BOOLEAN :
        LET c == LMMInit(y, X, QS, r)
        IN  /\ args = [y |-> y, X |-> X, QS |-> QS, restricted |-> r]
            /\ res = [ok |-> c.ok, exc |-> c.exc]
            /\ lmm = IF c.ok THEN c.obj ELSE NoLMM
            /\ pc = "idle"
            /\ last = "init"
            /\ err = c.exc
            /\ ntrials = 0
            /\ tried = {}
            /\ fitLog = <<>>
            /\ sargs = NoArgs
            /\ sc = NoSc
            /\ out = NoOut
            /\ fails = FALSE
            /\ calls = 0
            /\ workers = NoWorkers
            /\ refit = NoRefit

\* scanner = lmm.get_fast_scanner(); a ValueError of the constructor leaves
\* the caller without a new scanner
GetFastScanner ==
    /\ Idle
    /\ calls < MaxCalls
    /\ calls' = IF calls < 0 THEN calls ELSE calls + 1
    /\ LET c == get_fast_scanner(lmm)
       IN  /\ sargs' = IF c.ok THEN ScannerArgs(lmm) ELSE sargs
           /\ sc' = IF c.ok THEN c.obj ELSE sc
           /\ err' = c.exc
    /\ last' = "get_fast_scanner"
    /\ ntrials' = 0
    /\ tried' = {}
    /\ fitLog' = <<>>
    /\ NoFit
    /\ UNCHANGED <<args, res, lmm, pc, out, fails, workers>>

\* lmm.fix(name) and lmm.unfix(name) with a name that is no parameter
DoFixUnknown == Idle /\ \E p \in UnknownParamIn : Call(Fix(lmm, p), "fix_unknown")
DoUnfixUnknown == Idle /\ \E p \in UnknownParamIn : Call(Unfix(lmm, p), "unfix_unknown")

NextSnap ==
    \/ AssignDelta
    \/ AssignBeta
    \/ AssignScale
    \/ DoFix
    \/ DoUnfix
    \/ FitEnter
    \/ SearchSet
    \/ SearchEval
    \/ SearchEnd
    \/ FitBeta
    \/ FitScale
    \/ GetFastScanner
    \/ DoFixUnknown
    \/ DoUnfixUnknown

SpecSnap == InitSnap /\ [][NextSnap]_vars

(***************************************************************************)
(* A FastScanner on its own: construction, then any sequence of its        *)
(* methods.                                                                *)
(***************************************************************************)
InitScan ==
    \E y \in SYIn, X \in SXIn, QS \in SQSIn, v \in VIn, f \in BOOLEAN :
        LET c == FastScannerInit(y, X, QS, v)
        IN  /\ sargs = [y |-> y, X |-> X, QS |-> QS, v |-> v]
            /\ sc = IF c.ok THEN c.obj ELSE NoSc
            /\ err = c.exc
            /\ last = "init"
            /\ out = NoOut
            /\ fails = f
            /\ args = NoArgs
            /\ res = [ok |-> FALSE, exc |-> "none"]
            /\ lmm = NoLMM
            /\ pc = "idle"
            /\ ntrials = 0
            /\ tried = {}
            /\ fitLog = <<>>
            /\ calls = -1
            /\ workers = NoWorkers
            /\ refit = NoRefit

LMMVars == <<args, res, lmm, pc, ntrials, tried, fitLog, calls, workers, refit>>

\* a scanner method has returned or raised
Returned(r, name, a) ==
    /\ sc' = r.sc
    /\ err' = r.exc
    /\ out' = [a EXCEPT !.rows = r.rows, !.warned = r.warned]
    /\ last' = name
    /\ UNCHANGED <<sargs, fails>>
    /\ UNCHANGED LMMVars

DoFastScan ==
    /\ sc.built
    /\ \E M \in MIn, verbose \in BOOLEAN :
         Returned(fast_scan(sc, M, verbose, fails), "fast_scan",
                  [M |-> M, verbose |-> verbose, rows |-> <<>>, warned |-> 0])

DoScan ==
    /\ sc.built
    /\ \E M \in SetIn :
         /\ sc_ncovariates(sc) + NCols(M) <= 3
         /\ Returned(scan(sc, M, fails), "scan",
                     [M |-> M, rows |-> <<>>, warned |-> 0])

DoNullLml ==
    /\ sc.built
    /\ Len(sc.ETBE) > 0
    /\ Returned(null_lml(sc, fails), "null_lml", [rows |-> <<>>, warned |-> 0])

DoSetScale ==
    /\ sc.built
    /\ \E s \in SetScaleIn :
         /\ sc' = set_scale(sc, s)
         /\ out' = [scale |-> s, warned |-> 0]
    /\ last' = "set_scale"
    /\ err' = "none"
    /\ UNCHANGED <<sargs, fails>>
    /\ UNCHANGED LMMVars

DoUnsetScale ==
    /\ sc.built
    /\ sc' = unset_scale(sc)
    /\ last' = "unset_scale"
    /\ err' = "none"
    /\ out' = NoOut
    /\ UNCHANGED <<sargs, fails>>
    /\ UNCHANGED LMMVars

NextScan ==
    \/ DoFastScan
    \/ DoScan
    \/ DoNullLml
    \/ DoSetScale
    \/ DoUnsetScale

SpecScan == InitScan /\ [][NextScan]_vars

(***************************************************************************)
(* A FastScanner over a covariance with a zero eigenvalue in S0: with      *)
(* v = 0 the 'min(D) > 0' filter drops the rank-k block as well.           *)
(***************************************************************************)
\* a decomposition over four samples with S0 = [2, 0]
QS4z == MkQS(Mat(4, <<IV(<<0, 1, 0, 0>>), IV(<<0, 0, 1, 0>>)>>),
             Mat(4, <<IV(<<-1, 0, 0, 0>>), IV(<<0, 0, 0, 1>>)>>),
             IV(<<2, 0>>))
BYIn == {IV(<<1, 2, 4, 3>>)}
BQSIn == SQSIn \cup {QS4z}

InitBlocks ==
    \E y \in BYIn, X \in SXIn, QS \in BQSIn, v \in VIn, f \in BOOLEAN :
        LET c == FastScannerInit(y, X, QS, v)
        IN  /\ sargs = [y |-> y, X |-> X, QS |-> QS, v |-> v]
            /\ sc = IF c.ok THEN c.obj ELSE NoSc
            /\ err = c.exc
            /\ last = "init"
            /\ out = NoOut
            /\ fails = f
            /\ args = NoArgs
            /\ res = [ok |-> FALSE, exc |-> "none"]
            /\ lmm = NoLMM
            /\ pc = "idle"
            /\ ntrials = 0
            /\ tried = {}
            /\ fitLog = <<>>
            /\ calls = -1
            /\ workers = NoWorkers
            /\ refit = NoRefit

SpecBlocks == InitBlocks /\ [][NextScan]_vars

(***************************************************************************)
(* Two threads that call fast_scan(M, verbose=False) at the same time on   *)
(* scanners with two covariates: both on one FastScanner, or each on a     *)
(* FastScanner of its own built from the same arguments.  A thread goes    *)
(* through _multicovariate_loop candidate by candidate: the border writes  *)
(* of candidate i, then the sum of the buffers, the solve and the row.     *)
(* workers.holds notes, for each scanner, the thread and candidate whose   *)
(* borders its buffers hold.                                               *)
(***************************************************************************)
WorkerIds == {1, 2}
\* candidate matrices of the threads
WMIn == {CandM(2), Mat(4, <<CandCols[2]>>), Mat(4, <<CandCols[4], CandCols[2]>>)}

\* a second FastScanner(...) call shares the buffers of the first
OwnScannerAliased(w) == 1
\* the scanner of thread w when each thread constructs its own: every
\* FastScanner(...) call allocates its _ETBE and _yTBE buffers
OwnScanner(w) == w

\* yTBM, XTBM, MTBM of _fast_scan_chunk for the whole of M
ChunkArrays(s, M) ==
    [yTBM |-> yTBM(s, MTQ(s, M.cols)), XTBM |-> XTBM(s, MTQ(s, M.cols)),
     MTBM |-> MTBMdiag(s, MTQ(s, M.cols), Kept(Len(MTQ(s, M.cols)), s.D))]
\* the border writes of candidate i
BordersWritten(s, a, i) == WriteBorders(s, a.yTBM, a.XTBM, a.MTBM, i)

InitWorkers ==
    \E QS \in SQSIn, f \in BOOLEAN, shared \in BOOLEAN :
        LET y == IV(<<1, 2, 4, 3>>)
            X == Mat(4, <<IV(<<1, 1, 1, 1>>), IV(<<0, 1, 2, 0>>)>>)
            c == FastScannerInit(y, X, QS, ROne)
        IN  /\ sargs = [y |-> y, X |-> X, QS |-> QS, v |-> ROne]
            /\ sc = c.obj
            /\ err = c.exc
            /\ last = "init"
            /\ out = NoOut
            /\ fails = f
            /\ workers =
                 [shared |-> shared,
                  inst |-> IF shared THEN <<c.obj>> ELSE <<c.obj, c.obj>>,
                  holds |-> IF shared THEN <<(<<0, 0>>)>>
                            ELSE <<(<<0, 0>>), (<<0, 0>>)>>,
                  th |-> asarray([w \in 1..Cardinality(WorkerIds) |->
                            [use |-> IF shared THEN 1 ELSE OwnScanner(w),
                             pc |-> "idle", M |-> Mat(4, <<>>), i |-> 0,
                             rows |-> <<>>, warned |-> 0, from |-> <<>>]])]
            /\ args = NoArgs
            /\ res = [ok |-> FALSE, exc |-> "none"]
            /\ lmm = NoLMM
            /\ pc = "idle"
            /\ ntrials = 0
            /\ tried = {}
            /\ fitLog = <<>>
            /\ calls = -1
            /\ refit = NoRefit

WorkerFrame ==
    UNCHANGED <<args, res, lmm, pc, err, ntrials, tried, fitLog,
                sargs, sc, out, fails, calls, refit>>

\* thread w enters fast_scan(M, verbose=False)
WStart(w) ==
    /\ workers.th[w].pc = "idle"
    /\ \E M \in WMIn :
         workers' = [workers EXCEPT !.th[w].pc = "write", !.th[w].M = M,
                                    !.th[w].i = 1]
    /\ last' = "start"
    /\ WorkerFrame

\* thread w writes the borders of its candidate i into the scanner's buffers
WWrite(w) ==
    /\ workers.th[w].pc = "write"
    /\ LET t == workers.th[w]
           s == workers.inst[t.use]
       IN  workers' =
             [workers EXCEPT
                !.inst[t.use] = BordersWritten(s, ChunkArrays(s, t.M), t.i),
                !.holds[t.use] = <<w, t.i>>,
                !.th[w].pc = "solve"]
    /\ last' = "write"
    /\ WorkerFrame

\* a solve that reads a copy of the buffers holding the thread's own borders
BuffersReadPrivate(w) ==
    BordersWritten(workers.inst[workers.th[w].use],
                   ChunkArrays(workers.inst[workers.th[w].use], workers.th[w].M),
                   workers.th[w].i)
\* the buffers left, right and _bstar_unpack read: those of the scanner
BuffersRead(w) == workers.inst[workers.th[w].use]

\* thread w sums the buffers, solves and fills the row of its candidate i
WSolve(w) ==
    /\ workers.th[w].pc = "solve"
    /\ LET t == workers.th[w]
           s == BuffersRead(w)
           r == SolveBuffers(s, fails)
       IN  workers' =
             [workers EXCEPT
                !.th[w].rows = Append(t.rows, multicovariate_row(s, r.x)),
                !.th[w].warned = t.warned + (IF r.warned THEN 1 ELSE 0),
                !.th[w].from = Append(t.from, workers.holds[t.use]),
                !.th[w].i = t.i + 1,
                !.th[w].pc = IF t.i = NCols(t.M) THEN "done" ELSE "write"]
    /\ last' = "solve"
    /\ WorkerFrame

NextWorkers ==
    \/ \E w \in WorkerIds : WStart(w)
    \/ \E w \in WorkerIds : WWrite(w)
    \/ \E w \in WorkerIds : WSolve(w)

SpecWorkers == InitWorkers /\ [][NextWorkers]_vars

(***************************************************************************)
(* Properties of the LMM.                                                  *)
(***************************************************************************)
FlagsCleared(m) == ~m.optimal.beta /\ ~m.optimal.scale
FitSteps == {"fit_enter", "opt_set", "value", "fit_raised", "fit_beta", "fit"}
NothingFixed(m) == ~m.dfixed /\ ~m.fix["beta"] /\ ~m.fix["scale"]

\* C1: every mutation of delta - the assignment in the constructor, an
\* assignment to `delta`, the optimizer setting the logistic variable -
\* leaves both optimal flags false in the state right after it; and no step
\* changes the stored logistic value without clearing them.
C1_DeltaMutationClearsFlags ==
    /\ [](res.ok /\ last \in {"init", "set_delta", "opt_set"} => FlagsCleared(lmm))
    /\ [][lmm'.odds # lmm.odds => FlagsCleared(lmm')]_vars

\* the optimizer has moved the logistic variable after an evaluation that
\* had set both flags
C1_Witness ==
    /\ res.ok /\ last = "opt_set" /\ ntrials >= 1
    /\ FlagsCleared(lmm)

\* C2: during fit() a fixed parameter keeps its stored value at every step
\* (the evaluations of value() included); on return every parameter that is
\* not fixed holds the value fit() gives it: delta a point the search
\* evaluated, beta the closed form at delta, scale the closed form at delta
\* and beta - whatever else is fixed.
C2_FixFreezesParameter ==
    /\ [][last' \in FitSteps =>
            /\ lmm.dfixed => lmm'.odds = lmm.odds
            /\ lmm.fix["beta"] => lmm'.tbeta = lmm.tbeta
            /\ lmm.fix["scale"] => lmm'.scale = lmm.scale]_vars
    /\ [](last = "fit" =>
            /\ ~lmm.dfixed => lmm.odds \in tried
            /\ ~lmm.fix["beta"] => lmm.tbeta = OptimalBeta(lmm)
            /\ ~lmm.fix["scale"] => lmm.scale = OptimalScaleAnyBeta(lmm))

\* fit() has returned with beta fixed at the user's value while delta was
\* searched and the scale recomputed for that beta
C2_Witness ==
    /\ res.ok /\ last = "fit"
    /\ lmm.fix["beta"] /\ ~lmm.fix["scale"] /\ ~lmm.dfixed
    /\ lmm.tbeta = ROne /\ lmm.tbeta # OptimalBeta(lmm)
    /\ lmm.odds \in tried
    /\ lmm.scale = OptimalScaleAnyBeta(lmm) /\ lmm.scale # ROne

SearchPart(m) == IF ~m.dfixed THEN <<"search">> ELSE <<>>
BetaPart(m) == IF ~m.fix["beta"] THEN <<"beta">> ELSE <<>>
ScalePart(m) == IF ~m.fix["scale"] THEN <<"scale">> ELSE <<>>

BadArgs(a) ==
    \/ ~IsAllFinite(a.y)
    \/ Len(a.y) = 0
    \/ ~IsAllFinite(MatFlat(a.X))
    \/ ~a.QS.isNone /\ a.QS.Q0.rows # Len(a.y)
    \/ a.X.rows # Len(a.y)

\* C6: LMM(...) raises ValueError and gives no object when y has a
\* non-finite value, y is empty, X has a non-finite value, Q0 has another
\* row count than y, or X has another row count than y; otherwise it
\* gives an object.
C6_ConstructorValidation ==
    /\ BadArgs(args) => ~res.ok /\ res.exc = "ValueError" /\ lmm = NoLMM
    /\ ~BadArgs(args) => res.ok /\ res.exc = "none"

\* the only fault of the arguments is the row count of Q0, and the call raised
C6_Witness ==
    /\ args.QS = QS3 /\ IsAllFinite(args.y) /\ Len(args.y) = 2
    /\ args.X.rows = 2 /\ IsAllFinite(MatFlat(args.X))
    /\ ~res.ok /\ res.exc = "ValueError"

\* the model was built with QS=None and nothing has been called yet
BuiltWithoutQS == res.ok /\ args.QS.isNone /\ last = "init"

\* C9 as stated: with QS=None delta is 1 after construction and is fixed
C9_DeltaIsOne == BuiltWithoutQS => Delta(lmm) = ROne /\ lmm.dfixed

\* C9, amended: with QS=None delta is 1 - epsilon.tiny after construction
\* (the value the setter's clip stores for 1.0) and is marked fixed; while
\* it is fixed - until unfix("delta") - fit() never enters the search and no
\* step of fit() changes delta.
C9_DeltaIsOneMinusTiny ==
    /\ [](BuiltWithoutQS => Delta(lmm) = RSub(ROne, EpsTiny) /\ lmm.dfixed)
    /\ [](res.ok /\ lmm.dfixed => pc \notin {"search", "eval"})
    /\ [][last' \in FitSteps /\ lmm.dfixed => Delta(lmm') = Delta(lmm)]_vars
    /\ [][lmm.dfixed /\ ~lmm'.dfixed => last' = "unfix"]_vars

\* a second fit() in a row has returned on a model built with QS=None, delta
\* still fixed at its initial value
C9_Witness ==
    /\ res.ok /\ args.QS.isNone /\ last = "fit" /\ lmm.dfixed
    /\ fitLog = <<"beta", "scale">>
    /\ Delta(lmm) = RSub(ROne, EpsTiny)
    /\ lmm.optimal.beta /\ lmm.optimal.scale

(***************************************************************************)
(* Properties of the FastScanner.                                          *)
(***************************************************************************)
\* the step is a get_fast_scanner() that returned a scanner
ScannerHandedOut == calls' # calls /\ last' = "get_fast_scanner" /\ err' = "none"
\* what a scanner gives for the candidates M = X and with no candidate
ScanResults(s) == <<fast_scan(s, s.X, FALSE, FALSE).rows, null_lml(s, FALSE).rows>>

\* C4: the scanner that get_fast_scanner() returns is the one
\* FastScanner(y, X, (Q, v0 * S0), v1) builds for v0 = scale * (1 - delta)
\* and v1 = scale * delta of the LMM at the call; every other step of the
\* LMM (an assignment to delta, beta or scale, fix, unfix, each step of
\* fit) leaves the scanner's arguments, its stored state and its results
\* as they were, and the arrays the two objects share stay what they were.
C4_ScannerIsSnapshot ==
    [][/\ ScannerHandedOut =>
            /\ sargs'.v = RMul(lmm.scale, Delta(lmm))
            /\ sargs'.QS.S0 =
                 ScaleV(RMul(lmm.scale, RSub(ROne, Delta(lmm))), lmm.QS.S0)
            /\ sargs'.y = lmm.y /\ sargs'.X = lmm.X
            /\ sargs'.QS.Q0 = lmm.QS.Q0 /\ sargs'.QS.Q1 = lmm.QS.Q1
            /\ sc' = FastScannerInit(sargs'.y, sargs'.X, sargs'.QS, sargs'.v).obj
            /\ sc'.built /\ sc'.scale = NoneV
       /\ ~ScannerHandedOut =>
            /\ sc' = sc /\ sargs' = sargs
            /\ sc.built => /\ ScanResults(sc') = ScanResults(sc)
                           /\ sc'.y = lmm'.y /\ sc'.X = lmm'.X
                           /\ sc'.QS.Q0 = lmm'.QS.Q0]_vars

\* a fit() has returned after the scanner was handed out, and the LMM's
\* variances are no longer the ones the scanner was built from
C4_Witness ==
    /\ sc.built /\ last = "fit" /\ fitLog # <<>>
    /\ sargs.v # RMul(lmm.scale, Delta(lmm))
    /\ sargs.QS.S0 # ScaleV(RMul(lmm.scale, RSub(ROne, Delta(lmm))), lmm.QS.S0)
    /\ sc = FastScannerInit(sargs.y, sargs.X, sargs.QS, sargs.v).obj

(***************************************************************************)
(* The scanner's results computed from scratch, out of the constructor's   *)
(* arguments a = [y, X, QS, v]: the form u^T B w over the n samples, with  *)
(* B the sum over the columns q of [Q0 Q1] of q q^T / d, d = S0 + v on Q0  *)
(* and d = v on Q1, a block with a d that is not positive left out.        *)
(***************************************************************************)
WeightedQ(a) ==
    (IF Len(a.QS.S0) > 0
        /\ \A i \in 1..Len(a.QS.S0) : RLt(RZero, RAdd(a.QS.S0[i], a.v))
     THEN asarray([i \in 1..Len(a.QS.S0) |->
              [q |-> a.QS.Q0.cols[i], w |-> RDiv(ROne, RAdd(a.QS.S0[i], a.v))]])
     ELSE <<>>)
    \o (IF RLt(RZero, a.v)
        THEN asarray([i \in 1..NCols(a.QS.Q1) |->
                 [q |-> a.QS.Q1.cols[i], w |-> RDiv(ROne, a.v)]])
        ELSE <<>>)
BformOver(W, u, w) ==
    RSum(asarray([k \in 1..Len(W) |->
        RMul(W[k].w, RMul(RDot(W[k].q, u), RDot(W[k].q, w)))]))
Bform(a, u, w) == BformOver(WeightedQ(a), u, w)
\* E^T B E and E^T B y for the columns E
Gram(a, E) ==
    LET W == WeightedQ(a)
    IN  asarray([r \in 1..Len(E) |->
            asarray([t \in 1..Len(E) |-> BformOver(W, E[r], E[t])])])
Rhs(a, E) ==
    LET W == WeightedQ(a)
    IN  asarray([r \in 1..Len(E) |-> BformOver(W, a.y, E[r])])
\* y - E x, and its form (y - E x)^T B (y - E x)
ResidualOf(a, E, x) ==
    asarray([i \in 1..Len(a.y) |->
        RSub(a.y[i], RSum(asarray([r \in 1..Len(E) |-> RMul(E[r][i], x[r])])))])
RSSAt(a, E, x) ==
    LET e == ResidualOf(a, E, x)
    IN  Bform(a, e, e)
\* the system of the columns E is singular
SingularFor(a, E) == RIsZero(Det(Gram(a, E)))
\* the covariates with candidate k of M, and with all of M
WithCand(a, M, k) == a.X.cols \o <<M.cols[k]>>
WithSet(a, M) == a.X.cols \o M.cols

ScanMethods == {"fast_scan", "scan", "null_lml"}
ScanReturned(name) == last = name /\ err = "none"
\* the candidates of M on whose system the solver raises LinAlgError
FailedCands(a, M, f) ==
    {k \in 1..NCols(M) : f /\ NCols(a.X) > 1 /\ SingularFor(a, WithCand(a, M, k))}
\* the candidates of M whose system is singular
SingularCands(a, M) == {k \in 1..NCols(M) : SingularFor(a, WithCand(a, M, k))}
\* candidate k of M evaluated on its own
AloneRow(M, k) ==
    fast_scan(sc, Mat(M.rows, <<M.cols[k]>>), FALSE, fails).rows[1]
AllZero(x) == \A i \in 1..Len(x) : RIsZero(x[i])

\* C5 as stated: no LinAlgError leaves a scanner method, and every
\* singular system met by fast_scan, scan or null_lml is warned about,
\* fast_scan giving one row per column of M.
C5_SingularIsWarned ==
    /\ err # "LinAlgError"
    /\ ScanReturned("fast_scan") =>
         /\ Len(out.rows) = NCols(out.M)
         /\ out.warned >= Cardinality(SingularCands(sargs, out.M))
    /\ ScanReturned("scan") /\ SingularFor(sargs, WithSet(sargs, out.M))
         => out.warned >= 1
    /\ ScanReturned("null_lml") /\ SingularFor(sargs, sargs.X.cols)
         => out.warned >= 1

\* C5, amended: a LinAlgError of the solver never leaves fast_scan, scan or
\* null_lml.  Each system the solver fails on gives one warning and effect
\* sizes of zero, and no other system gives a warning (a singular system
\* that the solver still solves - by least squares, or in closed form when
\* there is one covariate - is not warned about); fast_scan returns one
\* filled row per column of M, each the row the candidate gets when scanned
\* on its own, whatever the number of failed candidates.  A scanner method
\* raises only for an M without columns or a scanner without a block of
\* positive variance.
C5_SolverFailureIsCaught ==
    /\ err # "LinAlgError"
    /\ last \in ScanMethods /\ err # "none" =>
         \/ WeightedQ(sargs) = <<>>
         \/ last = "fast_scan" /\ NCols(out.M) = 0
    /\ ScanReturned("fast_scan") =>
         /\ Len(out.rows) = NCols(out.M)
         /\ out.warned = Cardinality(FailedCands(sargs, out.M, fails))
         /\ \A k \in 1..Len(out.rows) :
              /\ out.rows[k] # UninitRow
              /\ out.rows[k] = AloneRow(out.M, k)
              /\ k \in FailedCands(sargs, out.M, fails)
                   => RIsZero(out.rows[k].effsize)
    /\ ScanReturned("scan") =>
         /\ Len(out.rows) = 1
         /\ out.warned =
              (IF fails /\ SingularFor(sargs, WithSet(sargs, out.M)) THEN 1 ELSE 0)
         /\ out.warned = 1 => AllZero(out.rows[1].effsize)
    /\ ScanReturned("null_lml") =>
         /\ Len(out.rows) = 1
         /\ out.warned =
              (IF fails /\ SingularFor(sargs, sargs.X.cols) THEN 1 ELSE 0)
         /\ out.warned = 1 => AllZero(out.rows[1].effsize)

\* fast_scan has returned all its rows after the solver failed on the first
\* and on the last two candidates of the batch, the second one evaluated
\* with an effect size that is not zero
C5_Witness ==
    /\ ScanReturned("fast_scan") /\ fails /\ NCols(sargs.X) = 2
    /\ NCols(out.M) = 4 /\ Len(out.rows) = 4
    /\ FailedCands(sargs, out.M, fails) = {1, 3, 4}
    /\ out.warned = 3
    /\ ~RIsZero(out.rows[2].effsize)

\* the four cases in which FastScanner(...) is to raise
BadScanArgs(a) ==
    \/ \E i \in 1..Len(a.y) : a.y[i][2] = 0
    \/ \E j \in 1..NCols(a.X) : \E i \in 1..a.X.rows : a.X.cols[j][i][2] = 0
    \/ a.v[1] < 0
    \/ a.v[2] = 0

\* C7: FastScanner(y, X, QS, v) raises ValueError and gives no scanner when
\* y or X has a non-finite value, when v is negative and when v is NaN or
\* infinite; for finite y and X it gives a scanner for every finite v >= 0,
\* v = 0 included.
C7_ScannerValidation ==
    /\ BadScanArgs(sargs) => ~sc.built /\ sc = NoSc
    /\ ~BadScanArgs(sargs) => sc.built
    /\ last = "init" => err = (IF BadScanArgs(sargs) THEN "ValueError" ELSE "none")

\* the constructor has returned a scanner for v = 0
C7_Witness ==
    /\ last = "init" /\ err = "none" /\ sc.built
    /\ sargs.v = RZero /\ sc.scale = NoneV

\* the chunks of fast_scan for p columns that hold column k (from 1)
ChunksHolding(k, p, verbose) ==
    {i \in 0..(NChunks(p, verbose) - 1) :
        ChunkStart(i, p, verbose) < k /\ k <= ChunkStop(i, p, verbose)}

\* C8: for p = 1..MaxP columns and both values of verbose, each column lies
\* in exactly one of the chunks [start, stop) that fast_scan goes through;
\* and a fast_scan that has returned gave one filled row per column, the
\* rows that the same scanner gives for the same M with the other value of
\* verbose.
C8_ChunksCoverOnce ==
    /\ last = "init" =>
         \A p \in 1..MaxP : \A verbose \in BOOLEAN : \A k \in 1..p :
            Cardinality(ChunksHolding(k, p, verbose)) = 1
    /\ ScanReturned("fast_scan") =>
         /\ Len(out.rows) = NCols(out.M)
         /\ \A k \in 1..Len(out.rows) : out.rows[k] # UninitRow
         /\ fast_scan(sc, out.M, ~out.verbose, fails).exc = "none"
         /\ fast_scan(sc, out.M, ~out.verbose, fails).rows = out.rows

\* a verbose fast_scan over MaxCols columns, one chunk per column, on a
\* scanner with two covariates, whose rows are not all alike
C8_Witness ==
    /\ ScanReturned("fast_scan") /\ out.verbose
    /\ NCols(out.M) = MaxCols /\ NChunks(NCols(out.M), TRUE) = MaxCols
    /\ NCols(sargs.X) = 2
    /\ Len(out.rows) = MaxCols /\ out.rows[1] # out.rows[2]

\* the solution fast_scan takes for the columns E (one candidate)
FastScanSolution(a, E) ==
    IF NCols(a.X) = 1
    THEN hsolve(Gram(a, E)[1][1], Gram(a, E)[1][2], Gram(a, E)[2][2],
                Rhs(a, E)[1], Rhs(a, E)[2])
    ELSE Solve(Gram(a, E), Rhs(a, E), fails).x
\* the solution scan and null_lml take for the columns E
SetSolution(a, E) == Solve(Gram(a, E), Rhs(a, E), fails).x
\* row r reports the scale the mode stands for: the fixed scale s, or the
\* residual sum of squares rss over the number of samples
ScaleAsMode(r, s, rss) ==
    r.scale = (IF s = NoneV THEN RDiv(rss, RI(Len(sargs.y))) ELSE s)
\* the log-likelihood of the null model is the one of the scale s
NullUses(r, s, rss) ==
    s # NoneV => /\ r.lml.logarg = s
                 /\ r.lml.add = RSub(RI(Len(sargs.y)), RDiv(rss, s))

\* C10: a fresh scanner holds no scale; set_scale(s) stores s and
\* unset_scale() clears it, and fast_scan, scan and null_lml leave what is
\* stored alone.  While a scale s is stored, every row of fast_scan and of
\* scan reports s and null_lml computes its likelihood with s; while none
\* is stored, each row reports the candidate's own residual sum of squares
\* (y - E x)^T B (y - E x) divided by n.
C10_ScaleMode ==
    /\ [](last = "init" /\ sc.built => sc.scale = NoneV)
    /\ [](last = "set_scale" => sc.scale = out.scale /\ sc.scale # NoneV)
    /\ [](last = "unset_scale" => sc.scale = NoneV)
    /\ [][last' \in ScanMethods => sc'.scale = sc.scale]_vars
    /\ [](ScanReturned("fast_scan") =>
            \A k \in 1..Len(out.rows) :
               ScaleAsMode(out.rows[k], sc.scale,
                           RSSAt(sargs, WithCand(sargs, out.M, k),
                                 FastScanSolution(sargs, WithCand(sargs, out.M, k)))))
    /\ [](ScanReturned("scan") =>
            ScaleAsMode(out.rows[1], sc.scale,
                        RSSAt(sargs, WithSet(sargs, out.M),
                              SetSolution(sargs, WithSet(sargs, out.M)))))
    /\ [](ScanReturned("null_lml") =>
            /\ ScaleAsMode(out.rows[1], sc.scale,
                           RSSAt(sargs, sargs.X.cols, SetSolution(sargs, sargs.X.cols)))
            /\ NullUses(out.rows[1], sc.scale,
                        RSSAt(sargs, sargs.X.cols, SetSolution(sargs, sargs.X.cols))))

\* a fast_scan made under the fixed scale 2 has returned rows that all
\* report 2, for candidates whose own optimal scales differ from it
C10_Witness ==
    /\ ScanReturned("fast_scan") /\ sc.scale = RI(2)
    /\ Len(out.rows) = MaxCols /\ NCols(sargs.X) = 2
    /\ \A k \in 1..Len(out.rows) :
          /\ out.rows[k].scale = RI(2)
          /\ RSSAt(sargs, WithCand(sargs, out.M, k),
                   FastScanSolution(sargs, WithCand(sargs, out.M, k)))
               # RMul(RI(2), RI(Len(sargs.y)))

(***************************************************************************)
(* Properties of concurrent scans.                                         *)
(***************************************************************************)
\* the row of the columns E (covariates and one candidate) computed from
\* scratch for a scanner with two covariates in optimal-scale mode
DirectRowAt(a, E, x) ==
    LET s == RDiv(RSSAt(a, E, x), RI(Len(a.y)))
    IN  [lml |-> [add |-> RZero, logarg |-> RMax(s, EpsSmall)],
         effsize |-> x[Len(E)], scale |-> s]
DirectRow(a, E) == DirectRowAt(a, E, SetSolution(a, E))
\* the row candidate k of thread w gets in a run on its own
OwnRow(w, k) == DirectRow(sargs, WithCand(sargs, workers.th[w].M, k))
\* row k of thread w was solved over borders written for another candidate
ForeignBorders(w, k) == workers.th[w].from[k] # <<w, k>>

\* C11: with both threads on one scanner, every row a thread fills is the
\* row of the candidate whose borders the shared buffers held when the
\* thread solved - its own candidate, or the one the other thread wrote in
\* between; so a thread can end with a row that is not the row of its own
\* candidate.
C11_SharedBuffersRace ==
    workers.shared =>
      \A w \in WorkerIds : \A k \in 1..Len(workers.th[w].rows) :
         LET o == workers.th[w].from[k]
         IN  /\ o[1] \in WorkerIds
             /\ workers.th[w].rows[k] =
                  DirectRow(sargs, WithCand(sargs, workers.th[o[1]].M, o[2]))

\* a thread has returned from fast_scan on the shared scanner with a row
\* that was solved over the other thread's borders and differs from the row
\* its candidate gets in a sequential run
C11_Witness ==
    /\ workers.shared
    /\ \E w \in WorkerIds :
         /\ workers.th[w].pc = "done"
         /\ \E k \in 1..Len(workers.th[w].rows) :
              /\ ForeignBorders(w, k)
              /\ workers.th[w].from[k][1] # w
              /\ workers.th[w].rows[k] # OwnRow(w, k)
              /\ workers.th[w].rows[k] #
                   fast_scan(sc, workers.th[w].M, FALSE, fails).rows[k]

\* the fields of a scanner that hold the arguments and the caches of the
\* constructor
SharedData(s) ==
    <<s.y, s.X, s.QS, s.D, s.XTQ, s.yTQDi, s.XTQDi, s.yTBy, s.yTBX>>

\* C12: with each thread on a scanner of its own, in every interleaving
\* every row a thread fills was solved over its own borders and is the row
\* of its own candidate, and a thread that has returned holds the rows and
\* warnings of fast_scan run alone; the threads write into different
\* scanners, and no step - nor scan() or null_lml() on any of the
\* scanners - changes y, X, the decomposition or the caches built from
\* them.
C12_OwnScannersIndependent ==
    ~workers.shared /\ workers.th # <<>> =>
      /\ \A w \in WorkerIds :
           /\ \A k \in 1..Len(workers.th[w].rows) :
                /\ ~ForeignBorders(w, k)
                /\ workers.th[w].rows[k] = OwnRow(w, k)
           /\ workers.th[w].pc = "done" =>
                /\ workers.th[w].rows =
                     fast_scan(sc, workers.th[w].M, FALSE, fails).rows
                /\ workers.th[w].warned =
                     fast_scan(sc, workers.th[w].M, FALSE, fails).warned
           /\ \A u \in WorkerIds : u # w => workers.th[u].use # workers.th[w].use
      /\ \A u \in 1..Len(workers.inst) :
           /\ SharedData(workers.inst[u]) = SharedData(sc)
           /\ scan(workers.inst[u], CandM(1), fails).sc = workers.inst[u]
           /\ null_lml(workers.inst[u], fails).sc = workers.inst[u]
           /\ SharedData(fast_scan(workers.inst[u], CandM(2), FALSE, fails).sc)
                = SharedData(sc)

\* one thread has returned and the other, started before that, is between
\* a write and its solve; the two scanners hold the borders of different
\* candidates
C12_Witness ==
    /\ ~workers.shared /\ workers.th # <<>>
    /\ workers.th[1].pc = "done" /\ Len(workers.th[1].rows) = 2
    /\ workers.th[2].pc = "solve" /\ NCols(workers.th[2].M) = 2
    /\ workers.inst[1] # workers.inst[2]
    /\ workers.th[1].rows # workers.th[2].rows
    /\ workers.th[1].rows = fast_scan(sc, workers.th[1].M, FALSE, fails).rows

(***************************************************************************)
(* Properties of the accessors of the LMM.                                 *)
(***************************************************************************)
ReadReturned(name) == res.ok /\ last = name /\ err = "none"
\* the object once beta and scale are recomputed at the current delta
Recomputed(m) == FitScaleStep(FitBetaStep(m))
\* (y - X beta)^T M (y - X beta) for the stored beta, from the cached forms
StoredQuad(m) ==
    RAdd(RSub(yTMy(m), RMul(RI(2), RMul(yTMtX(m), m.tbeta))),
         RMul(m.tbeta, RMul(tXTMtX(m), m.tbeta)))

FitTwice == res.ok /\ last = "fit" /\ refit.n = 2
\* the parameters and the flags of two objects are the same
SameFit(a, b) ==
    /\ a.optimal = b.optimal
    /\ Delta(a) = Delta(b) /\ a.tbeta = b.tbeta /\ a.scale = b.scale
    /\ Lml(a) = Lml(b)

C15_DeltaInOpenInterval ==
    res.ok => RLt(EpsTiny, Delta(lmm)) /\ RLt(Delta(lmm), RSub(ROne, EpsTiny))

\* C15, amended: in every state of an LMM - after the constructor, after an
\* assignment of any value to delta, after the optimizer has set the
\* logistic variable - the value read from delta lies in the closed
\* interval [tiny, 1 - tiny], hence strictly between 0 and 1; an assignment
\* at or beyond a bound and a variable set far enough out read as the bound
\* itself.
C15_DeltaInClosedInterval ==
    res.ok =>
      /\ RLe(EpsTiny, Delta(lmm)) /\ RLe(Delta(lmm), RSub(ROne, EpsTiny))
      /\ RLt(RZero, Delta(lmm)) /\ RLt(Delta(lmm), ROne)
      /\ RLe(lmm.odds, Rat(1, TinyInv - 1)) => Delta(lmm) = EpsTiny
      /\ RLe(RI(TinyInv - 1), lmm.odds) => Delta(lmm) = RSub(ROne, EpsTiny)

\* the optimizer has set the logistic variable so low that its logistic
\* function is under tiny, and delta reads as tiny
C15_Witness ==
    /\ res.ok /\ last = "opt_set"
    /\ RLt(RDiv(lmm.odds, RAdd(lmm.odds, ROne)), EpsTiny)
    /\ Delta(lmm) = EpsTiny

\* C16: the scale of an LMM is positive in every state, whether the
\* closed-form update produced it or the user assigned it.
C16_ScalePositive == res.ok => RLt(RZero, lmm.scale)

(***************************************************************************)
(* Properties of degenerate candidates.                                    *)
(***************************************************************************)
\* column u is r times column w
Multiple(u, w, r) == \A i \in 1..Len(u) : u[i] = RMul(r, w[i])
\* the ratios by which candidate k of M is a multiple of covariate j
RatiosTo(a, M, k, j) ==
    {r \in {RDiv(M.cols[k][i], a.X.cols[j][i]) :
              i \in {l \in 1..Len(a.y) : ~RIsZero(a.X.cols[j][l])}} :
       ~RIsZero(r) /\ Multiple(M.cols[k], a.X.cols[j], r)}
\* candidate k of M is proportional to a covariate
Proportional(a, M, k) == \E j \in 1..NCols(a.X) : RatiosTo(a, M, k, j) # {}
\* the effect sizes of the covariates alone
NullBeta(a) == Cramer(Gram(a, a.X.cols), Rhs(a, a.X.cols))
\* a log-likelihood that is a number
FiniteLml(r) == IsFinite(r.lml.add) /\ IsFinite(r.lml.logarg) /\ RLt(RZero, r.lml.logarg)

\* C17 as stated: the row of a candidate whose system the solver cannot
\* solve has an effect size of zero and the scale and likelihood of that
\* zero solution; and a candidate proportional to a covariate gets a finite
\* likelihood and an effect size of zero, with a warning.
C17_RedundantIsZeroAndWarned ==
    ScanReturned("fast_scan") =>
      \A k \in 1..Len(out.rows) :
        LET E == WithCand(sargs, out.M, k)
        IN  /\ k \in FailedCands(sargs, out.M, fails) =>
                 out.rows[k] = RowOf(sc, RSSAt(sargs, E, ZeroV(Len(E))), RZero)
            /\ Proportional(sargs, out.M, k) =>
                 /\ FiniteLml(out.rows[k])
                 /\ RIsZero(out.rows[k].effsize)
                 /\ out.warned >= 1

\* C17, amended: the row of a candidate whose system the solver cannot
\* solve has an effect size of zero and the scale and likelihood of the
\* zero solution, whose residual is y itself.  A candidate proportional to
\* a covariate gets a finite likelihood; with two or more covariates of
\* full rank and a solver that does not raise it gets no warning, the
\* residual of the covariates alone, and the effect size of the least-norm
\* solution: for a
\* candidate r times covariate j, r / (1 + r^2) times the effect of
\* covariate j alone - zero only when that effect is zero.
C17_DegenerateSolution ==
    ScanReturned("fast_scan") =>
      /\ out.warned = Cardinality(FailedCands(sargs, out.M, fails))
      /\ \A k \in 1..Len(out.rows) :
           LET E == WithCand(sargs, out.M, k)
           IN  /\ k \in FailedCands(sargs, out.M, fails) =>
                    out.rows[k] = RowOf(sc, RSSAt(sargs, E, ZeroV(Len(E))), RZero)
               /\ Proportional(sargs, out.M, k) =>
                    /\ FiniteLml(out.rows[k])
                    /\ NCols(sargs.X) > 1 /\ ~fails
                         /\ ~SingularFor(sargs, sargs.X.cols) =>
                         /\ out.rows[k] =
                              RowOf(sc, RSSAt(sargs, sargs.X.cols, NullBeta(sargs)),
                                    out.rows[k].effsize)
                         /\ \A j \in 1..NCols(sargs.X) :
                              \A r \in RatiosTo(sargs, out.M, k, j) :
                                 out.rows[k].effsize =
                                   RMul(RDiv(r, RAdd(ROne, RMul(r, r))),
                                        NullBeta(sargs)[j])

\* fast_scan has returned, without a warning, a row for a candidate that
\* repeats a covariate: its effect size is half the effect of the covariate
\* alone and not zero
C17_Witness ==
    /\ ScanReturned("fast_scan") /\ ~fails /\ NCols(sargs.X) = 2
    /\ ~SingularFor(sargs, sargs.X.cols)
    /\ out.warned = 0
    /\ \E k \in 1..Len(out.rows) :
         /\ Proportional(sargs, out.M, k)
         /\ ~RIsZero(out.rows[k].effsize)
         /\ FiniteLml(out.rows[k])

(***************************************************************************)
(* Properties of the restricted likelihood.                                *)
(***************************************************************************)
\* X^T M X / s with M = Q D^-1 Q^T written out over the columns of Q0 and
\* of Q1 (D is (1 - delta) S0 + delta on Q0 and delta on Q1)
DirectH(m) ==
    RDiv(RAdd(RSum(asarray([i \in 1..NCols(m.QS.Q0) |->
                     RDiv(RMul(RDot(m.QS.Q0.cols[i], m.X.cols[1]),
                               RDot(m.QS.Q0.cols[i], m.X.cols[1])),
                          RAdd(RMul(RSub(ROne, Delta(m)), m.QS.S0[i]), Delta(m)))])),
              RSum(asarray([i \in 1..NCols(m.QS.Q1) |->
                     RDiv(RMul(RDot(m.QS.Q1.cols[i], m.X.cols[1]),
                               RDot(m.QS.Q1.cols[i], m.X.cols[1])),
                          Delta(m))]))),
         m.scale)
DirectXX(m) == RDot(m.X.cols[1], m.X.cols[1])
\* a determinant whose sign slogdet reports as 1
PositiveDet(a) == a[2] > 0 /\ a[1] > 0

\* C18: lml() on a restricted model raises ValueError whenever det(X^T X)
\* or det(H), H = X^T D^-1 X / s, is not positive, and otherwise returns a
\* value made with these two determinants as they are; lml() on a model that
\* is not restricted never raises, and its correction term is log 1 -
\* log 1 = 0.
C18_RemlSignsAreFatal ==
    res.ok /\ last = "lml" =>
      /\ lmm.restricted =>
           /\ ~(PositiveDet(DirectXX(lmm)) /\ PositiveDet(DirectH(lmm)))
                => err = "ValueError"
           /\ PositiveDet(DirectXX(lmm)) /\ PositiveDet(DirectH(lmm)) =>
                /\ err = "none"
                /\ Lml(lmm).xx = DirectXX(lmm) /\ Lml(lmm).h = DirectH(lmm)
      /\ ~lmm.restricted =>
           /\ err = "none"
           /\ Lml(lmm).xx = ROne /\ Lml(lmm).h = ROne

\* lml() has raised on a restricted model whose scale the user had made
\* negative, so that det(H) is negative
C18_Witness ==
    /\ res.ok /\ last = "lml" /\ err = "ValueError"
    /\ lmm.restricted
    /\ RLt(lmm.scale, RZero) /\ RLt(DirectH(lmm), RZero)

(***************************************************************************)
(* Properties of the covariates and of the fix flags.                      *)
(***************************************************************************)
\* C19 as stated: an assignment to X succeeds, the X getter then returns
\* the assigned matrix, and both optimal flags are cleared.
C19_XSetterReplaces ==
    res.ok /\ last = "set_X" =>
      /\ err = "none"
      /\ lmm.X \in XSetIn
      /\ FlagsCleared(lmm)

\* C19, amended: the X of an LMM cannot be replaced.  An assignment to X
\* raises AttributeError and leaves the whole object - X, beta, scale and
\* the optimal flags - as it was, and no other operation changes X: the X
\* getter returns the matrix given to the constructor in every state.
C19_XReadOnly ==
    /\ [](res.ok => lmm.X = args.X)
    /\ [](res.ok /\ last = "set_X" => err = "AttributeError")
    /\ [][last' = "set_X" => lmm' = lmm]_vars

\* an assignment to X has raised on a fitted object, whose flags still
\* report beta and scale as optimal
C19_Witness ==
    /\ res.ok /\ last = "set_X" /\ err = "AttributeError"
    /\ lmm.optimal.beta /\ lmm.optimal.scale
    /\ lmm.X = args.X /\ lmm.X \notin XSetIn

\* C20: a call of fix or unfix with a name other than delta, beta and
\* scale raises, and the object keeps a fix flag for delta, beta and scale
\* and for nothing else.
C20_UnknownNameRejected ==
    res.ok /\ last \in {"fix_unknown", "unfix_unknown"} =>
      /\ err # "none"
      /\ DOMAIN lmm.fix = {"beta", "scale"}

(***************************************************************************)
(* Candidates without signal, and the two paths of fast_scan.              *)
(***************************************************************************)
\* the arrays a result row of fast_scan stands for: lmls, effsizes, scales
ReturnedArrays(r) == DOMAIN r
\* the result of null_lml() on the scanner as it is now
NullRow == null_lml(sc, fails).rows[1]
ZeroCands(M) == {k \in 1..NCols(M) : AllZero(M.cols[k])}

\* C21: a fast_scan that has returned gives, for every all-zero column of
\* M, an array of baseline effect sizes equal to the effect sizes of the
\* null model, a candidate effect size of zero and the log-likelihood of
\* null_lml(), with one covariate or more and with the scale set or not.
C21_ZeroCandidateIsNull ==
    ScanReturned("fast_scan") =>
        \A k \in ZeroCands(out.M) :
            /\ RIsZero(out.rows[k].effsize)
            /\ out.rows[k].lml = NullRow.lml
            /\ "effsize0" \in ReturnedArrays(out.rows[k])
            /\ out.rows[k].effsize0 = NullRow.effsize

\* fast_scan(M) for the single column of the set scan() was given
AsFastScan == fast_scan(sc, out.M, FALSE, fails)
\* scan() was called with one column on a scanner with one covariate
OneByOne ==
    ScanReturned("scan") /\ NCols(sargs.X) = 1 /\ NCols(out.M) = 1
\* the two rows give the same log-likelihood, effect size and scale
SameRow(f, s) ==
    /\ f.lml = s.lml
    /\ f.effsize = s.effsize[1]
    /\ f.scale = s.scale
\* fast_scan took the path its number of covariates selects: every effect
\* size is the one of that path's solver, and the closed form never warns
PathTaken ==
    ScanReturned("fast_scan") =>
        /\ \A k \in 1..Len(out.rows) :
              out.rows[k].effsize =
                 FastScanSolution(sargs, WithCand(sargs, out.M, k))[NCols(sargs.X) + 1]
        /\ NCols(sargs.X) = 1 => out.warned = 0

InitLik == Init \/ InitScan

NextLik ==
    \/ AssignDelta
    \/ AssignBeta
    \/ AssignScale
    \/ DoLml
    \/ DoFastScan
    \/ DoScan
    \/ DoSetScale
    \/ DoUnsetScale

SpecLik == InitLik /\ [][NextLik]_vars

RECURSIVE RProd(_)
RProd(s) == IF s = <<>> THEN ROne ELSE RMul(Head(s), RProd(Tail(s)))
\* the n x n matrix  sum of w_k q_k q_k^T + c I, as the sequence of its rows
DenseOf(n, qs, ws, c) ==
    asarray([i \in 1..n |-> asarray([j \in 1..n |->
        RAdd(RSum(asarray([k \in 1..Len(qs) |-> RMul(ws[k], RMul(qs[k][i], qs[k][j]))])),
             IF i = j THEN c ELSE RZero)])])
MatMul(A, B) ==
    asarray([i \in 1..Len(A) |-> asarray([j \in 1..Len(A) |->
        RSum(asarray([k \in 1..Len(A) |-> RMul(A[i][k], B[k][j])]))])])
IdentityM(n) == asarray([i \in 1..n |-> asarray([j \in 1..n |-> IF i = j THEN ROne ELSE RZero])])

\* (1 - delta) K + delta I of the LMM m, K = Q0 S0 Q0^T
LMMCov(m) ==
    DenseOf(Len(m.y), m.QS.Q0.cols, ScaleV(RSub(ROne, Delta(m)), m.QS.S0), Delta(m))
\* y - X beta
ResidualLMM(m) ==
    asarray([i \in 1..Len(m.y) |-> RSub(m.y[i], RMul(m.X.cols[1][i], GetBeta(m)))])
\* (y - X beta)^T C^-1 (y - X beta) by a dense solve
DenseQuad(m) == RDot(ResidualLMM(m), Cramer(LMMCov(m), ResidualLMM(m)))
\* lml() of m is the log-density of N(X beta, s C) at y:
\*   (-n log(2 pi) - n log(s) - log det(C) - quad / s) / 2
LmlIsDensity(m) ==
    LET L == Lml(m)
    IN  /\ L.exc = "none"
        /\ L.xx = ROne /\ L.h = ROne
        /\ L.lml.df = Len(m.y)
        /\ L.lml.s = m.scale
        /\ L.lml.d = Delta(m)
        /\ RProd(LogdetDArgs(m)) = Det(LMMCov(m))
        /\ L.lml.sub = RDiv(DenseQuad(m), m.scale)
\* an LMM whose scale the caller can have fixed at a valid value
LikState == res.ok /\ lmm.exc = "none" /\ RLt(RZero, lmm.scale)

\* v0 K + v1 I of the scanner built from a = [y, X, QS, v], and the matrix
\* of the form Bform
ScanCov(a) == DenseOf(Len(a.y), a.QS.Q0.cols, a.QS.S0, a.v)
ScanPrec(a) ==
    LET W == WeightedQ(a)
    IN  DenseOf(Len(a.y), asarray([k \in 1..Len(W) |-> W[k].q]),
                asarray([k \in 1..Len(W) |-> W[k].w]), RZero)
\* the density exists: the covariance is regular
DensityDefined(a) == ~RIsZero(Det(ScanCov(a)))
\* the constant part of every log-likelihood of the scanner is the one of
\* the density: Bform is the form of the inverse covariance, and the sum of
\* the logarithms in _static_lml is the logarithm of its determinant
StaticIsDensity ==
    /\ MatMul(ScanPrec(sargs), ScanCov(sargs)) = IdentityM(Len(sargs.y))
    /\ RProd(static_lml_args(sc)) = Det(ScanCov(sargs))
\* row r is the density maximised over the effect sizes of the columns E
\* and over the scale: x solves the normal equations, the scale is the
\* residual form at x over n, and the likelihood is
\*   (static_lml - n log(scale)) / 2
RowIsMaximum(r, E, x, eff) ==
    /\ MatVec(Gram(sargs, E), x) = Rhs(sargs, E)
    /\ r.effsize = eff
    /\ r.scale = RDiv(RSSAt(sargs, E, x), RI(Len(sargs.y)))
    /\ r.lml.add = RZero
    /\ r.lml.logarg = r.scale
\* every row that fast_scan or scan returned is such a maximum
RowsAreMaxima ==
    /\ ScanReturned("fast_scan") =>
         \A k \in 1..Len(out.rows) :
            LET x == FastScanSolution(sargs, WithCand(sargs, out.M, k))
            IN  RowIsMaximum(out.rows[k], WithCand(sargs, out.M, k), x, x[Len(x)])
    /\ ScanReturned("scan") =>
         LET x == SetSolution(sargs, WithSet(sargs, out.M))
         IN  RowIsMaximum(out.rows[1], WithSet(sargs, out.M), x,
                          SubSeq(x, NCols(sargs.X) + 1, Len(x)))

\* C23 as stated: for any delta, beta and fixed scale s > 0, lml() is the
\* log-density of N(X beta, s ((1 - delta) K + delta I)) at y as a dense
\* computation gives it; and every row of fast_scan and of scan is the
\* maximum of the density under scale * (v0 K + v1 I) over the effect sizes
\* and the scale.
C23_LmlIsDensity ==
    /\ LikState => LmlIsDensity(lmm)
    /\ sc.built /\ DensityDefined(sargs) /\ last \in {"fast_scan", "scan"} /\ err = "none"
         => StaticIsDensity /\ RowsAreMaxima

\* C23, amended: for an LMM built with restricted=False, any delta, beta
\* and scale s > 0 assigned by the caller, lml() is the log-density of
\* N(X beta, s ((1 - delta) K + delta I)) at y (with restricted=True it is
\* the restricted likelihood, which is another number).  For a scanner with
\* a regular covariance v0 K + v1 I, while no scale is set and on every
\* system the solver does not raise on, each row of fast_scan and of scan
\* is the maximum of the density under scale * (v0 K + v1 I) over the
\* effect sizes and the scale.
C23_LmlIsDensityUnrestricted ==
    /\ LikState /\ ~lmm.restricted => LmlIsDensity(lmm)
    /\ LikState /\ lmm.restricted => ~LmlIsDensity(lmm)
    /\ sc.built /\ DensityDefined(sargs) /\ last \in {"fast_scan", "scan"} /\ err = "none"
         => /\ StaticIsDensity
            /\ sc.scale = NoneV /\ out.warned = 0 => RowsAreMaxima

\* lml() has returned for delta = 1/4, beta = 1 and scale = 2 assigned to
\* an unrestricted LMM with a kinship of rank one
C23_Witness ==
    /\ last = "lml" /\ err = "none" /\ LikState /\ ~lmm.restricted
    /\ Delta(lmm) = Rat(1, 4) /\ lmm.tbeta = ROne /\ lmm.scale = RI(2)
    /\ Len(lmm.QS.S0) = 1
    /\ ~lmm.optimal.scale
    /\ Lml(lmm).lml.sub = RDiv(DenseQuad(lmm), RI(2))
    /\ ~RIsZero(DenseQuad(lmm))

(***************************************************************************)
(* What the scanner's methods leave alone, and what the loop writes.       *)
(***************************************************************************)
\* what FastScanner.__init__ computed and the methods only read: yTBy,
\* yTBX, D, the projections, and the baseline blocks of the buffers
Caches(s) ==
    [yTBy |-> s.yTBy, yTBX |-> s.yTBX, D |-> s.D,
     XTQ |-> s.XTQ, yTQDi |-> s.yTQDi, XTQDi |-> s.XTQDi,
     y |-> s.y, X |-> s.X, QS |-> s.QS,
     XTBX |-> asarray([j \in 1..Len(s.ETBE) |-> View_XTBX(s.ETBE[j], 1)]),
     yTBXbuf |-> asarray([j \in 1..Len(s.yTBE) |-> View_yTBX(s.yTBE[j], 1)])]
ScannerCalls == ScanMethods \cup {"set_scale", "unset_scale"}

\* C24: a call of fast_scan, scan, null_lml, set_scale or unset_scale,
\* whether it returns or raises, leaves the caches of the constructor as
\* they were (yTBy, yTBX, D, the projections of y and X, the X-by-X block
\* of every bordered buffer and the baseline part of every right-hand
\* side); null_lml() gives after the call what it gave before it whenever
\* the call left the scale mode as it was.
C24_CachesReadOnly ==
    [][last' \in ScannerCalls =>
         /\ Caches(sc') = Caches(sc)
         /\ Caches(sc') = Caches(FastScannerInit(sargs.y, sargs.X, sargs.QS, sargs.v).obj)
         /\ sc'.scale = sc.scale /\ Len(sc.ETBE) > 0 =>
              /\ null_lml(sc', fails).rows = null_lml(sc, fails).rows
              /\ null_lml(sc', fails).exc = null_lml(sc, fails).exc]_vars

\* fast_scan has gone through the general loop of a scanner with two
\* covariates: the borders of its buffers are written, and the scanner is
\* no longer the object the constructor returned
C24_Witness ==
    /\ ScanReturned("fast_scan") /\ NCols(sargs.X) = 2 /\ NCols(out.M) = MaxCols
    /\ sc # [FastScannerInit(sargs.y, sargs.X, sargs.QS, sargs.v).obj
                EXCEPT !.scale = sc.scale]
    /\ \A j \in 1..Len(sc.yTBE) : sc.yTBE[j][3] # Uninit
    /\ Caches(sc) = Caches(FastScannerInit(sargs.y, sargs.X, sargs.QS, sargs.v).obj)

\* the buffers of scanner s are symmetric
SymmetricBuffers(s) ==
    \A j \in 1..Len(s.ETBE) : \A r \in 1..Len(s.ETBE[j]) : \A t \in 1..Len(s.ETBE[j]) :
        s.ETBE[j][r][t] = s.ETBE[j][t][r]
\* every border entry of the buffers of s is the one of candidate i in the
\* chunk arrays a, for c covariates
BordersAreOf(s, a, i, c) ==
    \A j \in 1..Len(s.ETBE) :
        /\ \A r \in 1..c : /\ s.ETBE[j][r][c + 1] = a.XTBM[j][r][i]
                           /\ s.ETBE[j][c + 1][r] = a.XTBM[j][r][i]
        /\ s.ETBE[j][c + 1][c + 1] = a.MTBM[j][i]
        /\ s.yTBE[j][c + 1] = a.yTBM[j][i]

\* C25: on a scanner that one thread scans with, at the moment the general
\* loop solves the system of candidate i every border entry of every
\* buffer (the X-by-candidate column, the mirrored row, the corner, the
\* last entry of the right-hand side) is the one of candidate i and every
\* buffer is symmetric: the buffers are those of a fresh scanner with the
\* borders of candidate i alone, and their sums are the system of candidate
\* i computed from the constructor's arguments.  Each row filled is the row
\* the candidate gets when a fresh scanner evaluates it alone.
C25_BordersHoldCandidate ==
    ~workers.shared =>
        \A w \in WorkerIds :
            /\ workers.th[w].pc = "solve" =>
                LET t == workers.th[w]
                    s == workers.inst[t.use]
                    c == NCols(sargs.X)
                IN  /\ BordersAreOf(s, ChunkArrays(sc, t.M), t.i, c)
                    /\ SymmetricBuffers(s)
                    /\ s = BordersWritten(sc, ChunkArrays(sc, t.M), t.i)
                    /\ SumM(s.ETBE, c + 1) = Gram(sargs, WithCand(sargs, t.M, t.i))
                    /\ SumV(s.yTBE, c + 1) = Rhs(sargs, WithCand(sargs, t.M, t.i))
            /\ \A k \in 1..Len(workers.th[w].rows) :
                  workers.th[w].rows[k] =
                     fast_scan(sc, Mat(4, <<workers.th[w].M.cols[k]>>), FALSE, fails).rows[1]

\* a thread on its own scanner is about to solve its second candidate, whose
\* border entries all differ from the ones written for the first
C25_Witness ==
    /\ ~workers.shared
    /\ \E w \in WorkerIds :
         LET t == workers.th[w]
             a == ChunkArrays(sc, t.M)
         IN  /\ t.pc = "solve" /\ t.i = 2 /\ Len(t.rows) = 1
             /\ a.yTBM[1][1] # a.yTBM[1][2]
             /\ a.MTBM[1][1] # a.MTBM[1][2]
             /\ a.XTBM[1][2][1] # a.XTBM[1][2][2]
             /\ BordersAreOf(workers.inst[t.use], a, 2, NCols(sargs.X))

(***************************************************************************)
(* The flags and the assertions of the LMM.                                *)
(***************************************************************************)
\* the flags of m stand over closed-form values of the current delta (and,
\* for the scale, of the stored beta)
FlagsAreCurrent(m) ==
    /\ m.optimal.beta => m.tbeta = OptimalBeta(m)
    /\ m.optimal.scale => m.scale = OptimalScaleAnyBeta(m)
    /\ m.optimal.scale /\ m.optimal.beta => m.scale = OptimalScaleUsingOptimalBeta(m)

\* C26: in every state of an LMM, inside fit() too, a true optimal-beta
\* flag stands over the beta of the closed-form update at the current
\* delta, and a true optimal-scale flag over the scale of the closed-form
\* update at the current delta and the stored beta.
C26_FlagsAreCurrent == res.ok => FlagsAreCurrent(lmm)

\* fit() has returned with both flags true over a delta, a beta and a scale
\* that are neither the constructor's nor values a caller assigns
C26_Witness ==
    /\ res.ok /\ last = "fit" /\ pc = "idle" /\ err = "none"
    /\ lmm.optimal.beta /\ lmm.optimal.scale
    /\ lmm.tbeta # RZero /\ lmm.tbeta # ROne
    /\ lmm.scale \notin ScaleIn /\ lmm.scale # ROne
    /\ Delta(lmm) # Rat(1, 2)
    /\ FlagsAreCurrent(lmm)

ScaleUpdated == res.ok /\ lmm.optimal.scale

\* C28: in every closed-form scale update of an LMM the divisor df is at
\* least 1, for every accepted construction
C28_DfAtLeastOne == res.ok => df(lmm) >= 1

\* the scale a closed-form update leaves is a finite number
C28_ScaleIsFinite == ScaleUpdated => IsFinite(lmm.scale)

\* under maximum likelihood the divisor is the number of samples
C28_DfUnrestricted == (res.ok /\ ~lmm.restricted) => df(lmm) = nsamples(lmm)

(***************************************************************************)
(* C29: fast_scan over a matrix without columns.                           *)
(***************************************************************************)
\* the last call was fast_scan(M, verbose) with M of shape (n, 0)
EmptyScan == last = "fast_scan" /\ NCols(out.M) = 0

\* C29: fast_scan called with a two-dimensional M that has zero columns
\* completes without error and returns empty outputs, for both values of
\* verbose
C29_EmptyScanReturns == EmptyScan => (err = "none" /\ out.rows = <<>>)

\* what the call does: it leaves with ZeroDivisionError, verbose or not, and
\* the scanner is as it was
C29_EmptyScanRaises == EmptyScan => (err = "ZeroDivisionError" /\ out.rows = <<>>)
C29_EmptyScanReached == EmptyScan /\ ~out.verbose /\ sc.scale # NoneV

(***************************************************************************)
(* C30: the per-eigenblock lists of a FastScanner.                         *)
(***************************************************************************)
\* the non-empty eigenblocks of the scanner, in the order of QS[0]
Blocks == Qs(sc.QS)
\* the places of D that pass `min(D) > 0`
KeptBlocks == {b \in 1..Len(sc.D) : MinPos(sc.D[b])}
yTQOf(b) == ProjT(sc.y, Blocks[b])
XTQOf(b) == asarray([r \in 1..NCols(sc.X) |-> ProjT(sc.X.cols[r], Blocks[b])])

\* D and XTQ have one entry per non-empty eigenblock, in the same order
UnfilteredAligned ==
    /\ Len(sc.D) = Len(Blocks)
    /\ Len(sc.XTQ) = Len(Blocks)
    /\ \A b \in 1..Len(Blocks) :
         /\ Len(sc.D[b]) = NCols(Blocks[b])
         /\ sc.XTQ[b] = XTQOf(b)
         /\ sc.D[b] = IF b = 1 /\ Len(sc.QS.S0) > 0
                      THEN asarray([i \in 1..Len(sc.QS.S0) |-> RAdd(sc.QS.S0[i], sargs.v)])
                      ELSE asarray([i \in 1..NCols(Blocks[b]) |-> sargs.v])

\* the filtered lists keep a prefix of the blocks; entry j of each belongs
\* to eigenblock j, the one whose D it was divided by and whose XTQ and MTQ
\* the zips pair it with
FilteredAligned ==
    /\ KeptBlocks = 1..Len(sc.yTQDi)
    /\ Len(sc.XTQDi) = Len(sc.yTQDi)
    /\ \A j \in 1..Len(sc.yTQDi) :
         /\ sc.yTQDi[j] = DivV(yTQOf(j), sc.D[j])
         /\ sc.XTQDi[j] = asarray([r \in 1..NCols(sc.X) |-> DivV(sc.XTQ[j][r], sc.D[j])])
         /\ sc.yTBX[j] = asarray([r \in 1..NCols(sc.X) |-> RDot(sc.yTQDi[j], XTQOf(j)[r])])
    /\ \A p \in 1..Len(Blocks) :
         Kept(p, sc.D) = Idx(Min2(p, Len(sc.yTQDi)))

\* the null-space block is dropped only when v = 0
NullBlockRule ==
    (Len(sc.QS.S0) < Len(sc.y) /\ Len(sc.D) \notin KeptBlocks) => RIsZero(sargs.v)

\* C30: in every accepted FastScanner with S0 >= 0 and finite v >= 0, D, yTQ
\* and XTQ have one entry per non-empty eigenblock in the same order, the
\* lists filtered by `min(D) > 0` keep a prefix of the blocks, every zip
\* pairs the projections with the D of the same eigenblock, and the
\* null-space block is dropped only when v = 0
C30_BlocksAligned ==
    sc.built => (UnfilteredAligned /\ FilteredAligned /\ NullBlockRule)

\* a scan has returned on a scanner with two eigenblocks of which the filter
\* kept the first only
C30_Witness ==
    /\ sc.built /\ last = "fast_scan" /\ err = "none" /\ NCols(out.M) > 0
    /\ Len(Blocks) = 2 /\ KeptBlocks = {1}
\* a scanner with a zero eigenvalue in S0 and v = 0: both blocks are dropped
C30_AllDropped ==
    /\ sc.built /\ Len(Blocks) = 2 /\ KeptBlocks = {} /\ last # "init"

====
